---------------------------- MODULE Spec2Model ----------------------------
(***************************************************************************)
(* YouTube-Local-Chat-Replayer: the load -> repair -> parse -> extract ->  *)
(* classify -> summarise pipeline of the page script (processChatData,     *)
(* displayChatMessages, processMessageRuns and the display* helpers).      *)
(*                                                                         *)
(* Text is a sequence of symbols.  A symbol is one character ("[", "{",    *)
(* a quote, a blank ...) or one maximal run of letters/digits (a key name  *)
(* such as "addChatItemAction", the literal "null", a word of message      *)
(* text): trim, startsWith/endsWith and the separator regex only ever look *)
(* at brackets, braces and whitespace, so a letter run behaves as a unit.  *)
(***************************************************************************)
EXTENDS Integers, Sequences, FiniteSets, TLC

VARIABLES
    rawText,                  \* the text handed to processChatData
    container,                \* children of #chat-container, in document order
    pc,                       \* "loaded" | "forEach" | "summary" | "idle"
    processedText,            \* processChatData's local processedText
    chatDataArray,            \* processChatData's local chatDataArray
    chatActions,              \* the flat action list given to displayChatMessages
    idx,                      \* position of actions.forEach
    messageCount,             \* displayChatMessages' four local counters
    skippedTickerCount,
    skippedOtherActionCount,
    skippedOtherItemCount,
    outcome,                  \* how the last pass ended ("none" before it ends)
    emptySrc,                 \* what img.src reads after it was assigned ""
    loads,                    \* the load actions of the user, one record each
    active                    \* the load whose text processChatData was given

vars == <<rawText, container, pc, processedText, chatDataArray, chatActions, idx,
          messageCount, skippedTickerCount, skippedOtherActionCount,
          skippedOtherItemCount, outcome, emptySrc, loads, active>>

\* what the steps of one pass leave alone
envVars == <<emptySrc, loads, active>>

counters == <<messageCount, skippedTickerCount, skippedOtherActionCount,
              skippedOtherItemCount>>

(***************************************************************************)
(* Bounds of the model.                                                    *)
(***************************************************************************)
MaxPieces == 4       \* pieces per enumerated raw text (SpecText)
MaxActions == 3      \* actions per generated chat dump (Spec)

(***************************************************************************)
(* Symbols.                                                                *)
(***************************************************************************)
Quote == "\""
Space == " "         \* whitespace of both JavaScript and JSON (U+0020)
Nbsp == "nbsp"       \* whitespace of JavaScript only (U+00A0): trimmed and
                     \* matched by \s, but not JSON whitespace

\* mutant: only the ASCII blank counts as whitespace
IsSpaceAscii(c) == c = Space

IsSpace(c) == c \in {Space, Nbsp}

(***************************************************************************)
(* JavaScript values as JSON.parse builds them, plus undefined.            *)
(***************************************************************************)
Undefined == [t |-> "undefined"]
Null == [t |-> "null"]
Num(n) == [t |-> "number", n |-> n]
Str(s) == [t |-> "string", s |-> s]
Arr(e) == [t |-> "array", e |-> e]
Obj(m) == [t |-> "object", m |-> m]
EmptyObj == Obj([k \in {} |-> Undefined])

IsArray(v) == v.t = "array"

\* ToBoolean: undefined, null, 0 and "" are falsy; objects and arrays are truthy.
Truthy(v) ==
    CASE v.t \in {"undefined", "null"} -> FALSE
      [] v.t = "number" -> v.n # 0
      [] v.t = "string" -> v.s # <<>>
      [] OTHER -> TRUE

\* v?.k for a key the script reads: the member of an object, else undefined.
Get(v, k) ==
    IF v.t = "object" /\ <<k>> \in DOMAIN v.m THEN v.m[<<k>>] ELSE Undefined

\* v?.[0]: the first element of a non-empty array, else undefined.
First(v) ==
    IF v.t = "array" /\ Len(v.e) > 0 THEN v.e[1] ELSE Undefined

\* a || b
OrElse(a, b) == IF Truthy(a) THEN a ELSE b

(***************************************************************************)
(* JSON.parse on the JSON subset of the model: arrays, objects, strings    *)
(* without escapes, null and the numbers 0, 1 and 2.  A SyntaxError is     *)
(* ok = FALSE.                                                             *)
(***************************************************************************)
\* the number literals of the model
NumberOf == ("0" :> 0) @@ ("1" :> 1) @@ ("2" :> 2)

ParseFail == [ok |-> FALSE, val |-> Undefined, pos |-> 0]

RECURSIVE SkipWs(_, _)
SkipWs(s, i) ==
    IF i <= Len(s) /\ s[i] = Space THEN SkipWs(s, i + 1) ELSE i

RECURSIVE FindQuote(_, _)
FindQuote(s, i) ==
    IF i > Len(s) THEN 0
    ELSE IF s[i] = Quote THEN i ELSE FindQuote(s, i + 1)

\* a string literal opening at s[j]
ParseString(s, j) ==
    LET k == FindQuote(s, j + 1) IN
    IF k = 0 THEN ParseFail
    ELSE [ok |-> TRUE, val |-> Str(SubSeq(s, j + 1, k - 1)), pos |-> k + 1]

\* a member set twice keeps the later value
SetMember(m, key, v) ==
    [k \in DOMAIN m \cup {key} |-> IF k = key THEN v ELSE m[k]]

RECURSIVE ParseValue(_, _), ParseElements(_, _, _), ParseMembers(_, _, _)
ParseValue(s, i) ==
    LET j == SkipWs(s, i) IN
    IF j > Len(s) THEN ParseFail
    ELSE CASE s[j] = "[" ->
                LET k == SkipWs(s, j + 1) IN
                IF k <= Len(s) /\ s[k] = "]"
                THEN [ok |-> TRUE, val |-> Arr(<<>>), pos |-> k + 1]
                ELSE ParseElements(s, j + 1, <<>>)
           [] s[j] = "{" ->
                LET k == SkipWs(s, j + 1) IN
                IF k <= Len(s) /\ s[k] = "}"
                THEN [ok |-> TRUE, val |-> EmptyObj, pos |-> k + 1]
                ELSE ParseMembers(s, j + 1, [k2 \in {} |-> Undefined])
           [] s[j] = Quote -> ParseString(s, j)
           [] s[j] = "null" -> [ok |-> TRUE, val |-> Null, pos |-> j + 1]
           [] s[j] \in DOMAIN NumberOf ->
                [ok |-> TRUE, val |-> Num(NumberOf[s[j]]), pos |-> j + 1]
           [] OTHER -> ParseFail

\* the elements of an array from s[i] on, acc those already read
ParseElements(s, i, acc) ==
    LET r == ParseValue(s, i) IN
    IF ~r.ok THEN ParseFail
    ELSE LET k == SkipWs(s, r.pos) IN
         IF k > Len(s) THEN ParseFail
         ELSE IF s[k] = "]"
              THEN [ok |-> TRUE, val |-> Arr(Append(acc, r.val)), pos |-> k + 1]
              ELSE IF s[k] = ","
                   THEN ParseElements(s, k + 1, Append(acc, r.val))
                   ELSE ParseFail

\* the members of an object from s[i] on, m those already read
ParseMembers(s, i, m) ==
    LET j == SkipWs(s, i) IN
    IF j > Len(s) \/ s[j] # Quote THEN ParseFail
    ELSE LET key == ParseString(s, j) IN
         IF ~key.ok THEN ParseFail
         ELSE LET c == SkipWs(s, key.pos) IN
              IF c > Len(s) \/ s[c] # ":" THEN ParseFail
              ELSE LET r == ParseValue(s, c + 1) IN
                   IF ~r.ok THEN ParseFail
                   ELSE LET k == SkipWs(s, r.pos)
                            m2 == SetMember(m, key.val.s, r.val)
                        IN IF k > Len(s) THEN ParseFail
                           ELSE IF s[k] = "}"
                                THEN [ok |-> TRUE, val |-> Obj(m2), pos |-> k + 1]
                                ELSE IF s[k] = ","
                                     THEN ParseMembers(s, k + 1, m2)
                                     ELSE ParseFail

JSONparse(s) ==
    LET r == ParseValue(s, 1) IN
    IF r.ok /\ SkipWs(s, r.pos) > Len(s)
    THEN [ok |-> TRUE, val |-> r.val]
    ELSE [ok |-> FALSE, val |-> Undefined]

(***************************************************************************)
(* processChatData, text stage: trim, the array test and the repair.       *)
(***************************************************************************)
RECURSIVE TrimStart(_)
TrimStart(s) ==
    IF s # <<>> /\ IsSpace(Head(s)) THEN TrimStart(Tail(s)) ELSE s

RECURSIVE TrimEnd(_)
TrimEnd(s) ==
    IF s # <<>> /\ IsSpace(s[Len(s)]) THEN TrimEnd(SubSeq(s, 1, Len(s) - 1)) ELSE s

\* String.prototype.trim
Trim(s) == TrimEnd(TrimStart(s))

\* processedText.startsWith("[") && processedText.endsWith("]")
IsLikelyValidArray(s) == s # <<>> /\ s[1] = "[" /\ s[Len(s)] = "]"

RECURSIVE SkipSpaces(_, _)
SkipSpaces(s, i) ==
    IF i <= Len(s) /\ IsSpace(s[i]) THEN SkipSpaces(s, i + 1) ELSE i

\* the positions from i on where a match of /}\s*{/ starts
MatchStarts(s, i) ==
    {k \in i..Len(s) :
        /\ s[k] = "}"
        /\ LET j == SkipSpaces(s, k + 1) IN j <= Len(s) /\ s[j] = "{"}

\* s.replace(/}\s*{/g, "},{") from position i on: leftmost match first, \s*
\* greedy, the scan resumes after the match
RECURSIVE ReplaceFrom(_, _)
ReplaceFrom(s, i) ==
    LET starts == MatchStarts(s, i) IN
    IF starts = {} THEN SubSeq(s, i, Len(s))
    ELSE LET k == CHOOSE x \in starts : \A y \in starts : x <= y
             j == SkipSpaces(s, k + 1)
         IN SubSeq(s, i, k - 1) \o <<"}", ",", "{">> \o ReplaceFrom(s, j + 1)

\* mutant: the regex without its g flag replaces the first occurrence only
ReplaceFirstFrom(s, i) ==
    LET starts == MatchStarts(s, i) IN
    IF starts = {} THEN SubSeq(s, i, Len(s))
    ELSE LET k == CHOOSE x \in starts : \A y \in starts : x <= y
             j == SkipSpaces(s, k + 1)
         IN SubSeq(s, i, k - 1) \o <<"}", ",", "{">> \o SubSeq(s, j + 1, Len(s))

ReplaceFirstOnly(s) == ReplaceFirstFrom(s, 1)

ReplaceSeparators(s) == ReplaceFrom(s, 1)

\* the repair: replace the separators, then wrap in brackets
Repair(s) == <<"[">> \o ReplaceSeparators(s) \o <<"]">>

\* mutant: the repair is applied without looking at the brackets
PreprocessAlways(trimmed) == Repair(trimmed)

\* mutant: the separators are replaced but the brackets are not added
PreprocessNoBrackets(trimmed) ==
    IF IsLikelyValidArray(trimmed) THEN trimmed ELSE ReplaceSeparators(trimmed)

\* the text given to JSON.parse for a non-empty trimmed text
Preprocess(trimmed) ==
    IF IsLikelyValidArray(trimmed) THEN trimmed ELSE Repair(trimmed)


\* the result of the text and parse stages, up to the call of
\* displayChatMessages: stage names how far the pass got
Stage(stage, text, data, actions) ==
    [stage |-> stage, processedText |-> text, chatDataArray |-> data,
     chatActions |-> actions]

(***************************************************************************)
(* processChatData, extraction stage.                                      *)
(***************************************************************************)
\* item?.replayChatItemAction?.actions ||
\* item?.continuationContents?.liveChatContinuation?.actions || []
\* mutant: the continuation list is looked at first
ItemActionsContinuationFirst(item) ==
    OrElse(Get(Get(Get(item, "continuationContents"),
                   "liveChatContinuation"), "actions"),
           OrElse(Get(Get(item, "replayChatItemAction"), "actions"),
                  Arr(<<>>)))

ItemActions(item) ==
    OrElse(Get(Get(item, "replayChatItemAction"), "actions"),
           OrElse(Get(Get(Get(item, "continuationContents"),
                          "liveChatContinuation"), "actions"),
                  Arr(<<>>)))

\* Array.prototype.flatMap: an array returned by the callback contributes its
\* elements, any other value contributes itself
\* mutant: the lists are put together last item first
RECURSIVE FlatMapFromLastFirst(_, _)
FlatMapFromLastFirst(items, i) ==
    IF i > Len(items) THEN <<>>
    ELSE LET r == ItemActions(items[i]) IN
         FlatMapFromLastFirst(items, i + 1) \o (IF IsArray(r) THEN r.e ELSE <<r>>)

RECURSIVE FlatMapFrom(_, _)
FlatMapFrom(items, i) ==
    IF i > Len(items) THEN <<>>
    ELSE LET r == ItemActions(items[i]) IN
         (IF IsArray(r) THEN r.e ELSE <<r>>) \o FlatMapFrom(items, i + 1)

FlatMap(items) == Arr(FlatMapFrom(items, 1))

\* processChatData from its first line to the call of displayChatMessages
ProcessStage(text) ==
    LET trimmed == Trim(text) IN
    IF trimmed = <<>>
    THEN Stage("EmptyInput", trimmed, Undefined, Undefined)
    ELSE LET prepared == Preprocess(trimmed)
             parsed == JSONparse(prepared)
         IN IF ~parsed.ok
            THEN Stage("MalformedJson", prepared, Undefined, Undefined)
            ELSE IF parsed.val.t \in {"null", "undefined"}
                 THEN \* chatDataArray.length of null
                      Stage("TypeError", prepared, parsed.val, Undefined)
                 ELSE IF ~IsArray(parsed.val)
                      THEN Stage("InternalShapeError", prepared, parsed.val,
                                 Arr(<<>>))
                      ELSE LET flat == FlatMap(parsed.val.e) IN
                           IF ~IsArray(flat)
                           THEN Stage("InternalShapeError", prepared,
                                      parsed.val, flat)
                           ELSE Stage("display", prepared, parsed.val, flat)

(***************************************************************************)
(* The chat container's children.                                          *)
(***************************************************************************)
ErrorP(msg) == [tag |-> "p", cls |-> "error", msg |-> msg]
InfoP(msg) == [tag |-> "p", cls |-> "info", msg |-> msg]
PlainP(text) == [tag |-> "p", cls |-> "", text |-> text]

TextNode(s) == [n |-> "text", s |-> s]
Img(src, alt) == [n |-> "img", src |-> src, alt |-> alt]
Span(cls, kids) == [n |-> "span", cls |-> cls, kids |-> kids]

IsMessage(e) == e.tag = "div"

\* mutant: the error is added to what the container holds
DisplayErrorAppend(children, msg) == Append(children, ErrorP(msg))

\* displayError: the error replaces whatever the container held
DisplayError(children, msg) == <<ErrorP(msg)>>

\* mutant: the message is put before the earlier children
EmitFirst(children, elem) == <<elem>> \o children

\* chatContainer.appendChild(messageElement)
Emit(children, elem) == Append(children, elem)

\* mutant: the summary is put after the messages
PrependLast(children, elem) == Append(children, elem)

\* chatContainer.prepend(summary)
Prepend(children, elem) == <<elem>> \o children

EmptyMsg == "Received data is empty."
ParseMsg == "Error parsing JSON: SyntaxError. The data might be corrupted or have an unexpected format. Check console for more details."
NotArrayMsg == "Error processing data: Internal error: Processed data is not an array.. Check console for more details."
ActionsNotArrayMsg == "Error processing data: Internal error: chatActions is not an array.. Check console for more details."
TypeErrorMsg == "Error processing data: TypeError. Check console for more details."

\* the text a value becomes when it is put into the page
ToStr(v) ==
    CASE v.t = "string" -> v.s
      [] v.t = "number" -> <<ToString(v.n)>>
      [] v.t = "null" -> <<"null">>
      [] v.t = "undefined" -> <<"undefined">>
      [] v.t = "array" -> <<"[array]">>
      [] OTHER -> <<"[object Object]">>

(***************************************************************************)
(* processMessageRuns(runs, targetElement): the children of the target     *)
(* after the call (kids are its children before), or a TypeError.          *)
(***************************************************************************)
Threw == [threw |-> TRUE, kids |-> <<>>]

\* The src attribute of an image reads back as a URL.  For the attribute ""
\* the page's engine decides: the empty string, or "" resolved against the
\* address of the page (what the HTML standard asks for).
PageUrl == Str(<<"page.html">>)
EmptySrcReadings == {Str(<<>>), PageUrl}

\* mutant: the src attribute reads back as it was written
ImgSrcAsWritten(src) == src

\* img.src after img.src = src
ImgSrc(src) == IF src = Str(<<>>) THEN emptySrc ELSE src

\* mutant: the alias is taken before the accessibility label
EmojiAltTextAliasFirst(emoji) ==
    OrElse(First(Get(emoji, "shortcuts")),
           OrElse(Get(Get(Get(emoji, "accessibility"), "accessibilityData"),
                      "label"),
                  Str(<<"emoji">>)))

\* emoji.accessibility?.accessibilityData?.label || emoji.shortcuts?.[0] ||
\* "emoji"
EmojiAltText(emoji) ==
    OrElse(Get(Get(Get(emoji, "accessibility"), "accessibilityData"), "label"),
           OrElse(First(Get(emoji, "shortcuts")), Str(<<"emoji">>)))

EmojiNode(emoji) ==
    LET src == OrElse(Get(First(Get(Get(emoji, "image"), "thumbnails")), "url"),
                      Str(<<>>))
        altText == EmojiAltText(emoji)
        read == ImgSrc(src)
    IN IF Truthy(read)
       THEN Img(ToStr(read), ToStr(altText))
       ELSE TextNode(<<"[">> \o ToStr(altText) \o <<"]">>)

RECURSIVE RunsFrom(_, _, _)
RunsFrom(runs, i, kids) ==
    IF i > Len(runs) THEN [threw |-> FALSE, kids |-> kids]
    ELSE LET run == runs[i] IN
         IF run.t \in {"null", "undefined"} THEN Threw   \* run.text of null
         ELSE IF Truthy(Get(run, "text"))
              THEN RunsFrom(runs, i + 1,
                            Append(kids, TextNode(ToStr(Get(run, "text")))))
              ELSE IF Truthy(Get(run, "emoji"))
                   THEN RunsFrom(runs, i + 1,
                                 Append(kids, EmojiNode(Get(run, "emoji"))))
                   ELSE RunsFrom(runs, i + 1, kids)

ProcessMessageRuns(runs, kids) ==
    IF ~Truthy(runs) \/ ~IsArray(runs)
    THEN [threw |-> FALSE, kids |-> <<>>]      \* targetElement.textContent = ""
    ELSE RunsFrom(runs.e, 1, kids)

(***************************************************************************)
(* displayChatMessages: one recognized item becomes one .chat-message.     *)
(***************************************************************************)
\* mutant: the loop over the badges ends at the first badge without an icon
RECURSIVE BadgesFromUntilGap(_, _)
BadgesFromUntilGap(badges, i) ==
    IF i > Len(badges) THEN <<>>
    ELSE LET badgeRenderer == Get(badges[i], "liveChatAuthorBadgeRenderer")
             url == Get(First(Get(Get(badgeRenderer, "customThumbnail"),
                                  "thumbnails")), "url")
         IN IF Truthy(url)
            THEN <<Img(ToStr(url),
                       ToStr(OrElse(Get(badgeRenderer, "tooltip"),
                                    Str(<<"Badge">>))))>>
                 \o BadgesFromUntilGap(badges, i + 1)
            ELSE <<>>

\* authorBadges.forEach: the badges with a custom thumbnail URL
RECURSIVE BadgesFrom(_, _)
BadgesFrom(badges, i) ==
    IF i > Len(badges) THEN <<>>
    ELSE LET badgeRenderer == Get(badges[i], "liveChatAuthorBadgeRenderer")
             url == Get(First(Get(Get(badgeRenderer, "customThumbnail"),
                                  "thumbnails")), "url")
         IN (IF Truthy(url)
             THEN <<Img(ToStr(url),
                        ToStr(OrElse(Get(badgeRenderer, "tooltip"),
                                     Str(<<"Badge">>))))>>
             ELSE <<>>) \o BadgesFrom(badges, i + 1)

\* mutant: the subtext line is put before the primary line
MemberBodySubtextFirst(memberRenderer) ==
    LET primaryRuns == Get(Get(memberRenderer, "headerPrimaryText"), "runs")
        subtext == Get(Get(memberRenderer, "headerSubtext"), "simpleText")
        messageRuns == Get(Get(memberRenderer, "message"), "runs")
        primary == IF Truthy(primaryRuns)
                   THEN ProcessMessageRuns(primaryRuns, <<>>)
                   ELSE [threw |-> FALSE, kids |-> <<>>]
        kids1 == IF Truthy(subtext)
                 THEN <<Span("membership-header-subtext",
                             <<TextNode(ToStr(subtext))>>)>>
                 ELSE <<>>
        kids2 == IF Truthy(primaryRuns)
                 THEN Append(kids1, Span("membership-header-primary",
                                         primary.kids))
                 ELSE kids1
    IN IF primary.threw THEN Threw
       ELSE IF Truthy(messageRuns)
            THEN ProcessMessageRuns(messageRuns, kids2)
            ELSE [threw |-> FALSE, kids |-> kids2]

\* the body of a membership item: primary header, subtext, message runs
MemberBody(memberRenderer) ==
    LET primaryRuns == Get(Get(memberRenderer, "headerPrimaryText"), "runs")
        subtext == Get(Get(memberRenderer, "headerSubtext"), "simpleText")
        messageRuns == Get(Get(memberRenderer, "message"), "runs")
        primary == IF Truthy(primaryRuns)
                   THEN ProcessMessageRuns(primaryRuns, <<>>)
                   ELSE [threw |-> FALSE, kids |-> <<>>]
        kids1 == IF Truthy(primaryRuns)
                 THEN <<Span("membership-header-primary", primary.kids)>>
                 ELSE <<>>
        kids2 == IF Truthy(subtext)
                 THEN Append(kids1, Span("membership-header-subtext",
                                         <<TextNode(ToStr(subtext))>>))
                 ELSE kids1
    IN IF primary.threw THEN Threw
       ELSE IF Truthy(messageRuns)
            THEN ProcessMessageRuns(messageRuns, kids2)
            ELSE [threw |-> FALSE, kids |-> kids2]

\* rendererData.authorPhoto?.thumbnails?.[0]?.url || "placeholder.png"
AuthorPhotoUrl(rendererData) ==
    OrElse(Get(First(Get(Get(rendererData, "authorPhoto"), "thumbnails")),
               "url"),
           Str(<<"placeholder.png">>))

\* rendererData.timestampText?.simpleText || "[no time]"
TimestampText(rendererData) ==
    OrElse(Get(Get(rendererData, "timestampText"), "simpleText"),
           Str(<<"[no time]">>))

\* mutant: without a timestamp the author counts as unknown too
AuthorNameTextNeedsTime(rendererData) ==
    IF Truthy(Get(Get(rendererData, "timestampText"), "simpleText"))
    THEN OrElse(Get(Get(rendererData, "authorName"), "simpleText"),
                Str(<<"[unknown author]">>))
    ELSE Str(<<"[unknown author]">>)

\* rendererData.authorName?.simpleText || "[unknown author]"
AuthorNameText(rendererData) ==
    OrElse(Get(Get(rendererData, "authorName"), "simpleText"),
           Str(<<"[unknown author]">>))

\* the element built from the renderers of an item one of which is truthy
MessageOf(textRenderer, memberRenderer) ==
    LET rendererData == IF Truthy(textRenderer) THEN textRenderer
                        ELSE memberRenderer
        variant == IF Truthy(textRenderer) THEN "plain" ELSE "membership"
        authorPhotoUrl == AuthorPhotoUrl(rendererData)
        timestampText == TimestampText(rendererData)
        authorNameText == AuthorNameText(rendererData)
        authorBadges == OrElse(Get(rendererData, "authorBadges"), Arr(<<>>))
        body == IF Truthy(textRenderer)
                THEN ProcessMessageRuns(Get(Get(textRenderer, "message"),
                                            "runs"), <<>>)
                ELSE MemberBody(memberRenderer)
    IN IF ~IsArray(authorBadges) \/ body.threw    \* forEach is not a function
       THEN [threw |-> TRUE, elem |-> Undefined]
       ELSE [threw |-> FALSE,
             elem |-> [tag |-> "div", variant |-> variant,
                       photo |-> ToStr(authorPhotoUrl),
                       time |-> ToStr(timestampText),
                       name |-> ToStr(authorNameText),
                       badges |-> BadgesFrom(authorBadges.e, 1),
                       body |-> body.kids]]

\* the branch of the forEach callback an action takes
Branch(kind, threw, elem) == [kind |-> kind, threw |-> threw, elem |-> elem]

\* mutant: the membership renderer is looked at before the text renderer
ItemBranchMemberFirst(item) ==
    LET textRenderer == Get(item, "liveChatTextMessageRenderer")
        memberRenderer == Get(item, "liveChatMembershipItemRenderer")
    IN IF Truthy(memberRenderer)
       THEN LET m == MessageOf(Undefined, memberRenderer)
            IN Branch("message", m.threw, m.elem)
       ELSE IF Truthy(textRenderer)
            THEN LET m == MessageOf(textRenderer, memberRenderer)
                 IN Branch("message", m.threw, m.elem)
            ELSE Branch("otherItem", FALSE, Undefined)

\* an add-chat-item action with an item: the renderer decides
ItemBranch(item) ==
    LET textRenderer == Get(item, "liveChatTextMessageRenderer")
        memberRenderer == Get(item, "liveChatMembershipItemRenderer")
    IN IF Truthy(textRenderer) \/ Truthy(memberRenderer)
       THEN LET m == MessageOf(textRenderer, memberRenderer)
            IN Branch("message", m.threw, m.elem)
       ELSE Branch("otherItem", FALSE, Undefined)

\* mutant: the ticker test is missing
NonChatBranchNoTicker(addTickerItemAction) ==
    Branch("otherAction", FALSE, Undefined)

\* an action without addChatItemAction: ticker or anything else
NonChatBranch(addTickerItemAction) ==
    IF Truthy(addTickerItemAction)
    THEN Branch("ticker", FALSE, Undefined)
    ELSE Branch("otherAction", FALSE, Undefined)

\* mutant: the item is used without the test for a missing item
ClassifyNoItemCheck(action) ==
    LET addChatItemAction == Get(action, "addChatItemAction")
        addTickerItemAction == Get(action, "addLiveChatTickerItemAction")
    IN IF Truthy(addChatItemAction)
       THEN LET item == Get(addChatItemAction, "item") IN
            IF item.t \in {"undefined", "null"}
            THEN Branch("otherItem", TRUE, Undefined)
            ELSE ItemBranch(item)
       ELSE NonChatBranch(addTickerItemAction)

Classify(action) ==
    LET addChatItemAction == Get(action, "addChatItemAction")
        addTickerItemAction == Get(action, "addLiveChatTickerItemAction")
    IN IF Truthy(addChatItemAction)
       THEN LET item == Get(addChatItemAction, "item") IN
            IF ~Truthy(item) THEN Branch("otherAction", FALSE, Undefined)
            ELSE ItemBranch(item)
       ELSE NonChatBranch(addTickerItemAction)

\* mutant: the ticker branch counts nothing
TallyNoTicker(kind) ==
    [messageCount |-> IF kind = "message" THEN 1 ELSE 0,
     skippedTickerCount |-> 0,
     skippedOtherActionCount |-> IF kind = "otherAction" THEN 1 ELSE 0,
     skippedOtherItemCount |-> IF kind = "otherItem" THEN 1 ELSE 0]

\* the counter a branch increments
Tally(kind) ==
    [messageCount |-> IF kind = "message" THEN 1 ELSE 0,
     skippedTickerCount |-> IF kind = "ticker" THEN 1 ELSE 0,
     skippedOtherActionCount |-> IF kind = "otherAction" THEN 1 ELSE 0,
     skippedOtherItemCount |-> IF kind = "otherItem" THEN 1 ELSE 0]

(***************************************************************************)
(* displayChatMessages: the summary line.                                  *)
(***************************************************************************)
\* "No chat actions found in the provided data."
TxtNoActions ==
    <<"N", "o", " ", "c", "h", "a", "t", " ", "a", "c", "t", "i", "o", "n",
      "s", " ", "f", "o", "u", "n", "d", " ", "i", "n", " ", "t", "h", "e",
      " ", "p", "r", "o", "v", "i", "d", "e", "d", " ", "d", "a", "t", "a",
      ".">>

\* "Processed data, but found no displayable messages."
TxtNoDisplayable ==
    <<"P", "r", "o", "c", "e", "s", "s", "e", "d", " ", "d", "a", "t", "a",
      ",", " ", "b", "u", "t", " ", "f", "o", "u", "n", "d", " ", "n", "o",
      " ", "d", "i", "s", "p", "l", "a", "y", "a", "b", "l", "e", " ", "m",
      "e", "s", "s", "a", "g", "e", "s", ".">>

\* "Displayed "
TxtDisplayed ==
    <<"D", "i", "s", "p", "l", "a", "y", "e", "d", " ">>

\* " messages."
TxtMessages ==
    <<" ", "m", "e", "s", "s", "a", "g", "e", "s", ".">>

\* " (Skipped: "
TxtSkippedOpen ==
    <<" ", "(", "S", "k", "i", "p", "p", "e", "d", ":", " ">>

\* " ticker"
TxtTicker ==
    <<" ", "t", "i", "c", "k", "e", "r">>

\* " unhandled item types"
TxtItemTypes ==
    <<" ", "u", "n", "h", "a", "n", "d", "l", "e", "d", " ", "i", "t", "e",
      "m", " ", "t", "y", "p", "e", "s">>

\* " unhandled action types"
TxtActionTypes ==
    <<" ", "u", "n", "h", "a", "n", "d", "l", "e", "d", " ", "a", "c", "t",
      "i", "o", "n", " ", "t", "y", "p", "e", "s">>

\* ", "
TxtComma ==
    <<",", " ">>

\* ")"
TxtClose ==
    <<")">>

RECURSIVE Digits(_)
Digits(n) ==
    IF n < 10 THEN <<ToString(n)>> ELSE Digits(n \div 10) \o <<ToString(n % 10)>>

RECURSIVE Join(_, _)
Join(parts, sep) ==
    IF parts = <<>> THEN <<>>
    ELSE IF Len(parts) = 1 THEN parts[1]
         ELSE parts[1] \o sep \o Join(Tail(parts), sep)

\* mutant: the two "unhandled" labels are exchanged
SkippedMessagesSwapped(ticker, otherItem, otherAction) ==
    (IF ticker > 0 THEN <<Digits(ticker) \o TxtTicker>> ELSE <<>>)
    \o (IF otherItem > 0 THEN <<Digits(otherItem) \o TxtActionTypes>> ELSE <<>>)
    \o (IF otherAction > 0 THEN <<Digits(otherAction) \o TxtItemTypes>>
        ELSE <<>>)

\* skippedMessages: the nonzero skip counters with their labels
SkippedMessages(ticker, otherItem, otherAction) ==
    (IF ticker > 0 THEN <<Digits(ticker) \o TxtTicker>> ELSE <<>>)
    \o (IF otherItem > 0 THEN <<Digits(otherItem) \o TxtItemTypes>> ELSE <<>>)
    \o (IF otherAction > 0 THEN <<Digits(otherAction) \o TxtActionTypes>>
        ELSE <<>>)

\* mutant: the head states the displayed count whatever the counters are
SummaryHeadCountOnly(count, ticker, otherItem, otherAction, nActions) ==
    TxtDisplayed \o Digits(count) \o TxtMessages

\* summaryText before the breakdown is added
SummaryHead(count, ticker, otherItem, otherAction, nActions) ==
    IF count = 0 /\ (ticker > 0 \/ otherAction > 0 \/ otherItem > 0)
    THEN TxtNoDisplayable
    ELSE IF count = 0 /\ nActions = 0
         THEN TxtNoActions
         ELSE TxtDisplayed \o Digits(count) \o TxtMessages

\* mutant: every category is listed, the zero ones too, and the parenthesis is
\* always added
SummaryTextAllCategories(count, ticker, otherItem, otherAction, nActions) ==
    SummaryHead(count, ticker, otherItem, otherAction, nActions)
    \o TxtSkippedOpen
    \o Join(<<Digits(ticker) \o TxtTicker, Digits(otherItem) \o TxtItemTypes,
              Digits(otherAction) \o TxtActionTypes>>, TxtComma)
    \o TxtClose

\* summary.textContent
SummaryText(count, ticker, otherItem, otherAction, nActions) ==
    LET skipped == SkippedMessages(ticker, otherItem, otherAction) IN
    SummaryHead(count, ticker, otherItem, otherAction, nActions)
    \o (IF skipped # <<>>
        THEN TxtSkippedOpen \o Join(skipped, TxtComma) \o TxtClose
        ELSE <<>>)


(***************************************************************************)
(* Inputs: chat dumps in the wire format the script reads, written out as  *)
(* text, and short raw texts put together from pieces.                     *)
(***************************************************************************)
O1(k, v) == Obj([x \in {<<k>>} |-> v])
O2(k1, v1, k2, v2) == Obj([x \in {<<k1>>, <<k2>>} |-> IF x = <<k1>> THEN v1 ELSE v2])

RECURSIVE Ser(_), SerElems(_, _), SerMembers(_, _)
\* JSON text of a value
Ser(v) ==
    CASE v.t = "string" -> <<Quote>> \o v.s \o <<Quote>>
      [] v.t = "number" -> <<ToString(v.n)>>
      [] v.t = "array" -> <<"[">> \o SerElems(v.e, 1) \o <<"]">>
      [] v.t = "object" -> <<"{">> \o SerMembers(v.m, DOMAIN v.m) \o <<"}">>
      [] OTHER -> <<"null">>

SerElems(e, i) ==
    IF i > Len(e) THEN <<>>
    ELSE Ser(e[i]) \o (IF i < Len(e) THEN <<",">> ELSE <<>>) \o SerElems(e, i + 1)

SerMembers(m, keys) ==
    IF keys = {} THEN <<>>
    ELSE LET k == CHOOSE x \in keys : TRUE IN
         <<Quote>> \o k \o <<Quote, ":">> \o Ser(m[k])
         \o (IF keys = {k} THEN <<>> ELSE <<",">>)
         \o SerMembers(m, keys \ {k})

\* sample actions
TextRenderer(name) == O1("authorName", O1("simpleText", Str(<<name>>)))
ChatItem(item) == O1("addChatItemAction", O1("item", item))
ActText(name) == ChatItem(O1("liveChatTextMessageRenderer", TextRenderer(name)))
ActMember ==
    ChatItem(O1("liveChatMembershipItemRenderer",
                O1("headerSubtext", O1("simpleText", Str(<<"Welcome">>)))))
ActPaid == ChatItem(O1("liveChatPaidMessageRenderer", EmptyObj))
ActNoItem == O1("addChatItemAction", EmptyObj)
ActNullItem == ChatItem(Null)
ActTicker == O1("addLiveChatTickerItemAction", EmptyObj)
ActOther == O1("markChatItemAsDeletedAction", EmptyObj)
ActBadBadges ==
    ChatItem(O1("liveChatTextMessageRenderer", O1("authorBadges", Num(1))))
ActChatAndTicker ==
    O2("addChatItemAction",
       O1("item", O1("liveChatTextMessageRenderer", TextRenderer("c"))),
       "addLiveChatTickerItemAction", EmptyObj)
ActNoItemAndTicker ==
    O2("addChatItemAction", EmptyObj, "addLiveChatTickerItemAction", EmptyObj)
ActBothRenderers ==
    ChatItem(O2("liveChatTextMessageRenderer", TextRenderer("t"),
                "liveChatMembershipItemRenderer", TextRenderer("m")))

CoreActions ==
    {ActText("a"), ActText("b"), ActMember, ActPaid, ActNoItem, ActTicker,
     ActOther, ActBadBadges}
RareActions ==
    {ActNullItem, Null, ActChatAndTicker, ActNoItemAndTicker, ActBothRenderers}

MaxMixed == 2        \* actions per generated dump that uses the rare actions too

ActionSeqs ==
    UNION {[1..n -> CoreActions] : n \in 0..MaxActions}
    \cup UNION {[1..n -> CoreActions \cup RareActions] : n \in 0..MaxMixed}

\* one top-level item holding the actions under the replay wrapper
ReplayItem(acts) == O1("replayChatItemAction", O1("actions", Arr(acts)))

\* a dump that is one JSON array of one item
ArrayDump(acts) == Ser(Arr(<<ReplayItem(acts)>>))

\* a dump of one object per action, a line break between them
RECURSIVE LinesFrom(_, _)
LinesFrom(acts, i) ==
    IF i > Len(acts) THEN <<>>
    ELSE Ser(ReplayItem(<<acts[i]>>))
         \o (IF i < Len(acts) THEN <<Space>> ELSE <<>>)
         \o LinesFrom(acts, i + 1)

LinesDump(acts) == LinesFrom(acts, 1)

\* texts that are no chat dump
OddTexts ==
    {<<Space>>, <<Nbsp, Space>>, <<Space, Nbsp>>, <<Nbsp>>, <<"[", "{">>, <<"{", "}", "]">>, <<"1">>,
     <<"null">>, <<Space, "[", "]", Space>>, <<"[", Nbsp, "]">>}

Payloads ==
    {ArrayDump(acts) : acts \in ActionSeqs}
    \cup {LinesDump(acts) : acts \in ActionSeqs}
    \cup OddTexts

\* what the container holds when the text of a load arrives: the loading
\* message of this load, or what another load put there in the meantime
StaleResult ==
    <<PlainP(SummaryText(1, 0, 0, 0, 1)), Classify(ActText("old")).elem>>
PriorContainers ==
    {<<InfoP("Reading file...")>>, <<ErrorP(ParseMsg)>>, StaleResult}

\* raw texts put together from at most MaxPieces pieces
Pieces ==
    {<<"[">>, <<"]">>, <<"{">>, <<"}">>, <<",">>, <<Space>>, <<Nbsp>>,
     <<Quote>>, <<"1">>, <<"{", Quote, "a", Quote, ":", "1", "}">>}

RECURSIVE Flatten(_)
Flatten(ps) == IF ps = <<>> THEN <<>> ELSE Head(ps) \o Flatten(Tail(ps))

\* {"a":1}{"b":2}
ExampleText ==
    <<"{", Quote, "a", Quote, ":", "1", "}", "{", Quote, "b", Quote, ":", "2",
      "}">>

\* [{"a":1},{"b":2}]
ExampleRepaired ==
    <<"[", "{", Quote, "a", Quote, ":", "1", "}", ",", "{", Quote, "b", Quote,
      ":", "2", "}", "]">>

\* {"k":"}{"}: the separator inside a string value
LimitationText == <<"{", Quote, "k", Quote, ":", Quote, "}", "{", Quote, "}">>

PieceTexts ==
    {Flatten(ps) : ps \in UNION {[1..n -> Pieces] : n \in 0..MaxPieces}}
    \cup {ExampleText, ExampleRepaired, LimitationText}

(***************************************************************************)
(* Dumps for the extraction stage: top-level items that hold their actions *)
(* under the replay wrapper, under the continuation, under both or under   *)
(* neither, and items whose actions member is no array.                    *)
(***************************************************************************)
MaxItems == 2        \* top-level items per dump of the extraction inputs

\* one top-level item holding v under continuationContents.liveChatContinuation
ContinuationItem(v) ==
    O1("continuationContents", O1("liveChatContinuation", O1("actions", v)))

\* one top-level item holding r under the replay wrapper and c under the
\* continuation
BothItem(r, c) ==
    O2("replayChatItemAction", O1("actions", r),
       "continuationContents", O1("liveChatContinuation", O1("actions", c)))

TopItems ==
    {ReplayItem(<<ActText("a")>>),
     ReplayItem(<<ActTicker, ActText("b")>>),
     ReplayItem(<<>>),
     ContinuationItem(Arr(<<ActMember>>)),
     BothItem(Arr(<<ActPaid>>), Arr(<<ActOther>>)),
     BothItem(Arr(<<>>), Arr(<<ActNoItem>>)),
     BothItem(Null, Arr(<<ActOther, ActPaid>>)),
     Null, Num(1), EmptyObj, O1("replayChatItemAction", Null),
     O1("replayChatItemAction", O1("actions", ActText("x"))),
     O1("replayChatItemAction", O1("actions", Str(<<"x">>))),
     ContinuationItem(Num(1))}

\* two items with two actions each and a null item between them
NullBetweenItems ==
    <<ReplayItem(<<ActTicker, ActText("b")>>), Null,
      BothItem(Null, Arr(<<ActOther, ActPaid>>))>>

ItemSeqs ==
    UNION {[1..n -> TopItems] : n \in 0..MaxItems} \cup {NullBetweenItems}

\* a dump of one value per line
RECURSIVE ItemLinesFrom(_, _)
ItemLinesFrom(items, i) ==
    IF i > Len(items) THEN <<>>
    ELSE Ser(items[i])
         \o (IF i < Len(items) THEN <<Space>> ELSE <<>>)
         \o ItemLinesFrom(items, i + 1)

ExtractPayloads ==
    {Ser(Arr(items)) : items \in ItemSeqs}
    \cup {ItemLinesFrom(items, 1) : items \in ItemSeqs}

(***************************************************************************)
(* Dumps for the rendering of one item: renderers with each field present, *)
(* absent or malformed.                                                    *)
(***************************************************************************)
\* an object with the members <<key, value>> of ms whose value is not undefined
Members(ms) ==
    Obj([x \in {<<ms[i][1]>> : i \in {j \in DOMAIN ms : ms[j][2] # Undefined}}
            |-> ms[CHOOSE i \in DOMAIN ms : ms[i][1] = x[1]][2]])

Thumbnails(list) == O1("thumbnails", Arr(list))
Url(u) == O1("url", Str(<<u>>))

PhotoChoices ==
    {Undefined, Thumbnails(<<>>), Thumbnails(<<Url("p")>>),
     Thumbnails(<<Url("p"), Url("q")>>), Thumbnails(<<EmptyObj, Url("q")>>)}
TimeChoices ==
    {Undefined, O1("simpleText", Str(<<"t">>)), O1("simpleText", Str(<<>>))}
NameChoices ==
    {Undefined, O1("simpleText", Str(<<"n">>)), Null}

\* a badge with a custom icon (u) and a tooltip (tip), either of which may be
\* undefined
BadgeOf(u, tip) ==
    O1("liveChatAuthorBadgeRenderer",
       Members(<<<<"customThumbnail",
                   IF u = Undefined THEN Undefined ELSE Thumbnails(<<u>>)>>,
                 <<"tooltip", tip>>>>))

BadgeChoices ==
    {Undefined, Arr(<<>>),
     Arr(<<BadgeOf(Url("u"), Str(<<"tip">>)), BadgeOf(Undefined, Str(<<"x">>)),
           BadgeOf(Url("v"), Undefined)>>),
     Arr(<<Null, BadgeOf(O1("url", Str(<<>>)), Undefined), BadgeOf(Url("w"), Str(<<>>))>>),
     Num(1)}

\* an emoji with an image (u) and a shortcut (sc), either of which may be
\* undefined
EmojiOf(u, sc) ==
    Members(<<<<"image", IF u = Undefined THEN Undefined ELSE Thumbnails(<<u>>)>>,
              <<"shortcuts", IF sc = Undefined THEN Undefined ELSE Arr(<<sc>>)>>>>)

RunsChoices ==
    {Undefined,
     Arr(<<O1("text", Str(<<"hi">>))>>),
     Arr(<<O2("text", Str(<<"hi">>), "emoji", EmojiOf(Url("e"), Undefined)),
           O1("emoji", EmojiOf(Url("e"), Str(<<"s">>)))>>),
     Arr(<<O1("emoji", EmojiOf(Undefined, Str(<<"s">>))),
           O1("navigationEndpoint", EmptyObj), Num(1),
           O1("text", Str(<<"z">>))>>),
     Arr(<<O1("text", Str(<<"hi">>)), Null>>),
     Arr(<<O1("emoji", O2("shortcuts", Arr(<<Str(<<"chat">>)>>),
                          "image", Thumbnails(<<>>))),
           O1("emoji",
              Members(<<<<"accessibility",
                          O1("accessibilityData", O1("label", Str(<<"smile">>)))>>,
                        <<"shortcuts", Arr(<<Str(<<"s">>), Str(<<"t">>)>>)>>,
                        <<"image", Thumbnails(<<Url("e"), Url("f")>>)>>>>)),
           O1("emoji", EmptyObj)>>),
     Num(1)}

RendererOf(photo, time, name, badges, runs) ==
    Members(<<<<"authorPhoto", photo>>, <<"timestampText", time>>,
              <<"authorName", name>>, <<"authorBadges", badges>>,
              <<"message",
                IF runs = Undefined THEN Undefined ELSE O1("runs", runs)>>>>)

\* every choice of the three plain fields, and every choice of badges and runs
ItemRenderers ==
    {RendererOf(p, t, n, Undefined, Undefined) :
        p \in PhotoChoices, t \in TimeChoices, n \in NameChoices}
    \cup {RendererOf(Undefined, Undefined, O1("simpleText", Str(<<"n">>)), b, r) :
            b \in BadgeChoices, r \in RunsChoices}

\* the three parts of the body of a membership item
HeaderPrimaryChoices ==
    {Undefined,
     O1("runs", Arr(<<O1("text", Str(<<"New">>)), O1("text", Str(<<"member">>))>>)),
     O1("runs", Arr(<<O1("emoji", EmojiOf(Url("e"), Str(<<"s">>)))>>))}
HeaderSubtextChoices ==
    {Undefined, O1("simpleText", Str(<<"Welcome">>)), O1("simpleText", Str(<<>>))}
MessageChoices ==
    {Undefined, EmptyObj, O1("runs", Arr(<<>>)),
     O1("runs", Arr(<<O1("text", Str(<<"thanks">>)),
                      O1("emoji", EmojiOf(Url("e"), Undefined))>>)),
     O1("runs", Num(1)), O1("runs", Str(<<"x">>))}

MemberRenderers ==
    {Members(<<<<"authorName", O1("simpleText", Str(<<"n">>))>>,
               <<"headerPrimaryText", p>>, <<"headerSubtext", h>>,
               <<"message", m>>>>) :
        p \in HeaderPrimaryChoices, h \in HeaderSubtextChoices,
        m \in MessageChoices}

ItemActionChoices ==
    {ChatItem(O1("liveChatTextMessageRenderer", r)) : r \in ItemRenderers}
    \cup {ChatItem(O1("liveChatMembershipItemRenderer", r)) : r \in ItemRenderers}
    \cup {ChatItem(O1("liveChatMembershipItemRenderer", r)) : r \in MemberRenderers}

\* the action under test alone, and followed by a text message
ItemPayloads ==
    {ArrayDump(<<a>>) : a \in ItemActionChoices}
    \cup {ArrayDump(<<a, ActText("b")>>) : a \in ItemActionChoices}

(***************************************************************************)
(* The state machine.  A handler runs to completion before another event   *)
(* is taken, so the steps of one pass are the only steps enabled while pc  *)
(* is not "idle".                                                          *)
(***************************************************************************)
MaxLoads == 3        \* load actions of the user in one run (SpecPasses)

LoadIds == 1..MaxLoads

\* a load action the user has not taken yet
NewLoad ==
    [phase |-> "new", kind |-> "none", url |-> <<>>, cleanName |-> <<>>,
     body |-> <<>>, pending |-> <<>>, chunks |-> <<>>, totalBytes |-> 0,
     fetches |-> 0, order |-> 0, error |-> ""]

\* the pass alone: the load that handed the text over is left out
InitEnv ==
    /\ emptySrc = PageUrl
    /\ loads = [l \in LoadIds |-> NewLoad]
    /\ active = 0

InitPass ==
    /\ pc = "loaded"
    /\ processedText = <<>>
    /\ chatDataArray = Undefined
    /\ chatActions = Undefined
    /\ idx = 0
    /\ messageCount = 0
    /\ skippedTickerCount = 0
    /\ skippedOtherActionCount = 0
    /\ skippedOtherItemCount = 0
    /\ outcome = "none"

Init ==
    /\ InitEnv
    /\ rawText \in Payloads
    /\ container \in PriorContainers
    /\ InitPass

InitText ==
    /\ InitEnv
    /\ rawText \in PieceTexts
    /\ container = <<InfoP("Reading file...")>>
    /\ InitPass

\* the error message processChatData shows for a stage that failed
StageError(stage) ==
    CASE stage = "EmptyInput" -> EmptyMsg
      [] stage = "MalformedJson" -> ParseMsg
      [] stage = "InternalShapeError" -> NotArrayMsg
      [] OTHER -> TypeErrorMsg

\* mutant: what the container held stays in it
ClearChildrenKeep(children) == children

\* chatContainer.innerHTML = "" at the start of displayChatMessages
ClearChildren(children) == <<>>

\* mutant: a counter goes on from the value the pass before left
FreshCountCarried(previous) == previous

\* let messageCount = 0 ...: a counter of displayChatMessages is a local that
\* starts at zero whatever the call before counted
FreshCount(previous) == 0

\* processChatData(rawText) up to the first forEach callback of
\* displayChatMessages
ProcessChatData ==
    /\ pc = "loaded"
    /\ LET r == ProcessStage(rawText) IN
       /\ processedText' = r.processedText
       /\ chatDataArray' = r.chatDataArray
       /\ chatActions' = r.chatActions
       /\ IF r.stage # "display"
          THEN /\ container' = DisplayError(container, StageError(r.stage))
               /\ pc' = "idle"
               /\ outcome' = r.stage
               /\ UNCHANGED <<idx, counters>>
          ELSE /\ messageCount' = FreshCount(messageCount)
               /\ skippedTickerCount' = FreshCount(skippedTickerCount)
               /\ skippedOtherActionCount' = FreshCount(skippedOtherActionCount)
               /\ skippedOtherItemCount' = FreshCount(skippedOtherItemCount)
               /\ IF Len(r.chatActions.e) = 0
                  THEN /\ container' = <<PlainP(TxtNoActions)>>
                       /\ pc' = "idle"
                       /\ outcome' = "noActions"
                       /\ idx' = idx
                  ELSE /\ container' = ClearChildren(container)
                       /\ pc' = "forEach"
                       /\ outcome' = outcome
                       /\ idx' = 1
    /\ UNCHANGED <<rawText, envVars>>

\* one call of the forEach callback of displayChatMessages; a TypeError thrown
\* in it is caught by processChatData
ForEachAction ==
    /\ pc = "forEach"
    /\ LET b == Classify(chatActions.e[idx])
           t == Tally(b.kind)
       IN /\ messageCount' = messageCount + t.messageCount
          /\ skippedTickerCount' = skippedTickerCount + t.skippedTickerCount
          /\ skippedOtherActionCount' =
                 skippedOtherActionCount + t.skippedOtherActionCount
          /\ skippedOtherItemCount' =
                 skippedOtherItemCount + t.skippedOtherItemCount
          /\ IF b.threw
             THEN /\ container' = DisplayError(container, TypeErrorMsg)
                  /\ pc' = "idle"
                  /\ outcome' = "TypeError"
                  /\ idx' = idx
             ELSE /\ container' = IF b.kind = "message"
                                  THEN Emit(container, b.elem)
                                  ELSE container
                  /\ idx' = idx + 1
                  /\ pc' = IF idx = Len(chatActions.e) THEN "summary"
                           ELSE "forEach"
                  /\ outcome' = outcome
    /\ UNCHANGED <<rawText, processedText, chatDataArray, chatActions, envVars>>

\* displayChatMessages after the forEach: the summary is put first
Summary ==
    /\ pc = "summary"
    /\ container' =
           Prepend(container,
                   PlainP(SummaryText(messageCount, skippedTickerCount,
                                      skippedOtherItemCount,
                                      skippedOtherActionCount,
                                      Len(chatActions.e))))
    /\ pc' = "idle"
    /\ outcome' = "rendered"
    /\ UNCHANGED <<rawText, processedText, chatDataArray, chatActions, idx,
                   counters, envVars>>

Next == ProcessChatData \/ ForEachAction \/ Summary

Spec == Init /\ [][Next]_vars

InitItems ==
    /\ emptySrc \in EmptySrcReadings
    /\ loads = [l \in LoadIds |-> NewLoad]
    /\ active = 0
    /\ rawText \in ItemPayloads
    /\ container = <<InfoP("Reading file...")>>
    /\ InitPass

\* the emoji images of the messages in the container: <<i, j, 0>> for the
\* j-th node of the body of the i-th child, <<i, j, k>> for the k-th node of
\* the header line that is the j-th node of that body
EmojiPlaces(children) ==
    {<<i, j, 0>> : i \in {m \in DOMAIN children : IsMessage(children[m])},
                   j \in 1..3}
    \cup {<<i, j, k>> : i \in {m \in DOMAIN children : IsMessage(children[m])},
                        j \in 1..3, k \in 1..3}

IsEmojiAt(children, p) ==
    /\ p[2] \in DOMAIN children[p[1]].body
    /\ LET node == children[p[1]].body[p[2]] IN
       IF p[3] = 0 THEN node.n = "img"
       ELSE /\ node.n = "span"
            /\ p[3] \in DOMAIN node.kids
            /\ node.kids[p[3]].n = "img"

\* img.replaceWith(fallbackText)
FallbackText(img) == TextNode(<<"[">> \o img.alt \o <<"]">>)

\* img.onerror of an emoji image that is in the page: the image did not load
EmojiImgError ==
    /\ pc = "idle"
    /\ \E p \in EmojiPlaces(container) :
          /\ IsEmojiAt(container, p)
          /\ container' =
                 IF p[3] = 0
                 THEN [container EXCEPT ![p[1]].body[p[2]] = FallbackText(@)]
                 ELSE [container EXCEPT
                          ![p[1]].body[p[2]].kids[p[3]] = FallbackText(@)]
    /\ UNCHANGED <<rawText, pc, processedText, chatDataArray, chatActions, idx,
                   counters, outcome, envVars>>

NextItems == ProcessChatData \/ ForEachAction \/ Summary \/ EmojiImgError

SpecItems == InitItems /\ [][NextItems]_vars

InitExtract ==
    /\ InitEnv
    /\ rawText \in ExtractPayloads
    /\ container = <<InfoP("Reading file...")>>
    /\ InitPass

SpecExtract == InitExtract /\ [][Next]_vars

NextText == ProcessChatData

SpecText == InitText /\ [][NextText]_vars

(***************************************************************************)
(* The load actions: handleFileSelect with the callbacks of its reader,    *)
(* and handleUrlLoad with its awaits.  A handler or a continuation runs to *)
(* completion, so a step of a load is taken only while no pass is running  *)
(* (pc = "idle"); the pass a load starts runs with the steps above.        *)
(***************************************************************************)
Bom == "BOM"

\* new TextDecoder("utf-8").decode(bytes), reader.readAsText(file): a byte
\* order mark at the start is not part of the text
Decode(bytes) ==
    IF bytes # <<>> /\ Head(bytes) = Bom THEN Tail(bytes) ELSE bytes

\* the contents of the files and of the response bodies
BodyOneMessage == ArrayDump(<<ActText("a")>>)
BodyLines == LinesDump(<<ActTicker, ActMember>>)
BodyMalformed == <<"[", "{">>
BodyBlank == <<Space>>
BodyWithBom == <<Bom>> \o ArrayDump(<<ActText("b"), ActOther>>)
Bodies == {BodyOneMessage, BodyLines, BodyMalformed, BodyBlank, BodyWithBom}

\* the contents of the files the user may select
FileBodies == {BodyOneMessage, BodyLines, BodyMalformed}

\* what the user typed into the URL field
UrlEmpty == <<>>
UrlBlank == <<Space>>
UrlHttps == <<Space, "https://", "host", "/", "chat.json">>
UrlNoScheme == <<"host", "/", "chat", "%20", "log.json">>
UrlBadEscape == <<"https://", "host", "/", "100", "%", ".json">>
Urls == {UrlEmpty, UrlBlank, UrlHttps, UrlNoScheme, UrlBadEscape}

\* url.startsWith("http://") || url.startsWith("https://")
StartsWithHttp(url) == url # <<>> /\ Head(url) \in {"http://", "https://"}

\* url.split("/").pop()
LastSegment(url) ==
    LET cuts == {i \in DOMAIN url : url[i] \in {"/", "http://", "https://"}}
        last == IF cuts = {} THEN 0
                ELSE CHOOSE i \in cuts : \A j \in cuts : j <= i
    IN SubSeq(url, last + 1, Len(url))

\* decodeURI(segment): throws a URIError for a malformed escape
DecodeURI(segment) ==
    IF \E i \in DOMAIN segment : segment[i] = "%"
    THEN [threw |-> TRUE, text |-> <<>>]
    ELSE [threw |-> FALSE,
          text |-> [i \in DOMAIN segment |->
                       IF segment[i] = "%20" THEN Space ELSE segment[i]]]

WarningP(msg) == [tag |-> "p", cls |-> "warning", msg |-> msg]
RequestingInfo(cleanName) ==
    [tag |-> "p", cls |-> "info", msg |-> "Requesting data from ...",
     cleanName |-> cleanName]
DownloadingInfo(cleanName) ==
    [tag |-> "p", cls |-> "info", msg |-> "Downloading data from ...",
     cleanName |-> cleanName]
PercentInfo(cleanName, percent) ==
    [tag |-> "p", cls |-> "info", msg |-> "Downloading data from ... (%)",
     cleanName |-> cleanName, percent |-> percent]

NoFileMsg == "No file selected."
ReadErrorMsg == "Error reading file."
NoUrlMsg == "Please enter a URL."
NoSchemeMsg == "URL does not start with http:// or https://. Attempting to load anyway."
FetchFailedMsg == "Error loading from URL: Failed to fetch<br> The source may be down, or you are blocking it. <br> This might be a network issue or a CORS (Cross-Origin Resource Sharing) problem. The server hosting the URL must allow requests from this page. Check console for more details."
HttpErrorMsg == "Error loading from URL: HTTP error! Status: 404 Not Found<br> The source may be down, or you are blocking it. <br> Check console for more details."
NoBodyMsg == "Error loading from URL: Response body is not available.<br> The source may be down, or you are blocking it. <br> Check console for more details."
StreamErrorMsg == "Error loading from URL: network error<br> The source may be down, or you are blocking it. <br> Check console for more details."

\* the message of the catch block of handleUrlLoad for what was thrown
UrlErrorMsg(thrown) ==
    CASE thrown = "rejected" -> FetchFailedMsg
      [] thrown = "notOk" -> HttpErrorMsg
      [] thrown = "noBody" -> NoBodyMsg
      [] OTHER -> StreamErrorMsg

\* mutant: the loading message always replaces what the container holds
DisplayInfoReplace(children, info) == <<info>>

\* displayInfo: the first p.info of the container gets the new text; without
\* one the loading message replaces whatever the container holds
DisplayInfo(children, info) ==
    LET found == {i \in DOMAIN children :
                     children[i].tag = "p" /\ children[i].cls = "info"}
    IN IF found # {}
       THEN [children EXCEPT
                ![CHOOSE i \in found : \A j \in found : i <= j] = info]
       ELSE <<info>>

\* displayWarning: the warning replaces whatever the container holds
DisplayWarning(children, msg) == <<WarningP(msg)>>

\* Math.round((receivedBytes / totalBytes) * 100)
Percent(receivedBytes, totalBytes) ==
    (200 * receivedBytes + totalBytes) \div (2 * totalBytes)

\* receivedBytes: the bytes of the chunks read so far
ReceivedBytes(chunks) == Len(Flatten(chunks))

\* the responses a fetch may settle with: a rejection, a status that is not
\* OK, a response without body, or a body that arrives in one or two chunks
\* with or without a Content-Length
Responses ==
    {[kind |-> k, pending |-> <<>>, totalBytes |-> 0] :
        k \in {"rejected", "notOk", "noBody"}}
    \cup {[kind |-> "ok", pending |-> c, totalBytes |-> t] :
            c \in {<<>>} \cup {<<b>> : b \in Bodies}
                  \cup {<<SubSeq(b, 1, Len(b) \div 2),
                           SubSeq(b, Len(b) \div 2 + 1, Len(b))>> : b \in Bodies},
            t \in {0}}
    \cup {[kind |-> "ok", pending |-> <<SubSeq(b, 1, Len(b) \div 2),
                                         SubSeq(b, Len(b) \div 2 + 1, Len(b))>>,
           totalBytes |-> Len(b)] : b \in Bodies}

\* the loads that have shown their outcome come before this one
NextOrder == 1 + Cardinality({l \in LoadIds : loads[l].order > 0})

\* the user takes the load actions one after the other
MayStart(l) ==
    /\ pc = "idle"
    /\ loads[l].phase = "new"
    /\ \A k \in LoadIds : k < l => loads[k].phase # "new"

passLocals == <<processedText, chatDataArray, chatActions, idx, counters>>

\* handleFileSelect: without a file an error, else the loading message and
\* the reader is started
HandleFileSelect(l) ==
    /\ MayStart(l)
    /\ \/ /\ container' = DisplayError(container, NoFileMsg)
          /\ loads' = [loads EXCEPT ![l].phase = "failed", ![l].kind = "file",
                                    ![l].error = NoFileMsg,
                                    ![l].order = NextOrder]
       \/ \E file \in FileBodies :
             /\ container' = DisplayInfo(container, InfoP("Reading file..."))
             /\ loads' = [loads EXCEPT ![l].phase = "reading",
                                       ![l].kind = "file", ![l].body = file]
    /\ UNCHANGED <<rawText, pc, passLocals, outcome, emptySrc, active>>

\* reader.onload: the text of the file is given to processChatData
ReaderOnload(l) ==
    /\ pc = "idle"
    /\ loads[l].phase = "reading"
    /\ rawText' = Decode(loads[l].body)
    /\ pc' = "loaded"
    /\ outcome' = "none"
    /\ active' = l
    /\ loads' = [loads EXCEPT ![l].phase = "piped", ![l].order = NextOrder]
    /\ UNCHANGED <<container, passLocals, emptySrc>>

\* reader.onerror
ReaderOnerror(l) ==
    /\ pc = "idle"
    /\ loads[l].phase = "reading"
    /\ container' = DisplayError(container, ReadErrorMsg)
    /\ loads' = [loads EXCEPT ![l].phase = "failed", ![l].error = ReadErrorMsg,
                              ![l].order = NextOrder]
    /\ UNCHANGED <<rawText, pc, passLocals, outcome, emptySrc, active>>

\* handleUrlLoad up to its first await: the name is decoded, an empty URL is
\* an error, else the request is announced and fetch is called.  A URIError
\* of decodeURI is thrown outside the try block: the handler ends there.
HandleUrlLoad(l) ==
    /\ MayStart(l)
    /\ \E typed \in Urls :
          LET url == Trim(typed)
              cleanName == DecodeURI(LastSegment(url))
          IN IF cleanName.threw
             THEN /\ loads' = [loads EXCEPT ![l].phase = "aborted",
                                            ![l].kind = "url", ![l].url = url]
                  /\ UNCHANGED container
             ELSE IF url = <<>>
                  THEN /\ container' = DisplayError(container, NoUrlMsg)
                       /\ loads' = [loads EXCEPT ![l].phase = "failed",
                                                 ![l].kind = "url",
                                                 ![l].url = url,
                                                 ![l].error = NoUrlMsg,
                                                 ![l].order = NextOrder]
                  ELSE /\ container' =
                              DisplayInfo(IF StartsWithHttp(url) THEN container
                                          ELSE DisplayWarning(container,
                                                              NoSchemeMsg),
                                          RequestingInfo(cleanName.text))
                       /\ loads' = [loads EXCEPT ![l].phase = "fetching",
                                                 ![l].kind = "url",
                                                 ![l].url = url,
                                                 ![l].cleanName = cleanName.text,
                                                 ![l].fetches = @ + 1]
    /\ UNCHANGED <<rawText, pc, passLocals, outcome, emptySrc, active>>

\* mutant: a rejected fetch is tried once more
FetchSettlesRetry(l) ==
    /\ pc = "idle"
    /\ loads[l].phase = "fetching"
    /\ loads[l].fetches < 2
    /\ loads' = [loads EXCEPT ![l].fetches = @ + 1]
    /\ UNCHANGED <<rawText, container, pc, passLocals, outcome, emptySrc,
                   active>>

\* the continuation of "await fetch(url)": a rejection, a status that is not
\* OK or a missing body is thrown and shown by the catch block; else the
\* download is announced and the first read is started
FetchSettles(l) ==
    /\ pc = "idle"
    /\ loads[l].phase = "fetching"
    /\ \E response \in Responses :
          IF response.kind # "ok"
          THEN /\ container' = DisplayError(container, UrlErrorMsg(response.kind))
               /\ loads' = [loads EXCEPT ![l].phase = "failed",
                                         ![l].error = UrlErrorMsg(response.kind),
                                         ![l].order = NextOrder]
          ELSE /\ container' =
                      DisplayInfo(container,
                                  IF response.totalBytes > 0
                                  THEN PercentInfo(loads[l].cleanName, 0)
                                  ELSE DownloadingInfo(loads[l].cleanName))
               /\ loads' = [loads EXCEPT ![l].phase = "streaming",
                                         ![l].body = Flatten(response.pending),
                                         ![l].pending = response.pending,
                                         ![l].totalBytes = response.totalBytes]
    /\ UNCHANGED <<rawText, pc, passLocals, outcome, emptySrc, active>>

\* the continuation of "await reader.read()" with a chunk: it is stored and,
\* with a Content-Length, the percentage is shown
ReadChunk(l) ==
    /\ pc = "idle"
    /\ loads[l].phase = "streaming"
    /\ loads[l].pending # <<>>
    /\ LET chunks == Append(loads[l].chunks, Head(loads[l].pending)) IN
       /\ loads' = [loads EXCEPT ![l].chunks = chunks,
                                 ![l].pending = Tail(@)]
       /\ container' =
              IF loads[l].totalBytes > 0
              THEN DisplayInfo(container,
                               PercentInfo(loads[l].cleanName,
                                           Percent(ReceivedBytes(chunks),
                                                   loads[l].totalBytes)))
              ELSE container
    /\ UNCHANGED <<rawText, pc, passLocals, outcome, emptySrc, active>>

\* "await reader.read()" rejects: the catch block shows the error
ReadFails(l) ==
    /\ pc = "idle"
    /\ loads[l].phase = "streaming"
    /\ container' = DisplayError(container, StreamErrorMsg)
    /\ loads' = [loads EXCEPT ![l].phase = "failed",
                              ![l].error = StreamErrorMsg,
                              ![l].order = NextOrder]
    /\ UNCHANGED <<rawText, pc, passLocals, outcome, emptySrc, active>>

\* the continuation of "await reader.read()" with done: the chunks are put
\* together, decoded and given to processChatData
ReadDone(l) ==
    /\ pc = "idle"
    /\ loads[l].phase = "streaming"
    /\ loads[l].pending = <<>>
    /\ container' =
           DisplayInfo(container, InfoP("Download complete. Processing data..."))
    /\ rawText' = Decode(Flatten(loads[l].chunks))
    /\ pc' = "loaded"
    /\ outcome' = "none"
    /\ active' = l
    /\ loads' = [loads EXCEPT ![l].phase = "piped", ![l].order = NextOrder]
    /\ UNCHANGED <<passLocals, emptySrc>>

\* the page before any load: no pass has run
InitIdle ==
    /\ emptySrc = PageUrl
    /\ loads = [l \in LoadIds |-> NewLoad]
    /\ active = 0
    /\ rawText = <<>>
    /\ container = <<>>
    /\ pc = "idle"
    /\ processedText = <<>>
    /\ chatDataArray = Undefined
    /\ chatActions = Undefined
    /\ idx = 0
    /\ messageCount = 0
    /\ skippedTickerCount = 0
    /\ skippedOtherActionCount = 0
    /\ skippedOtherItemCount = 0
    /\ outcome = "none"

\* file loads only, as many as MaxLoads, their readers in any interleaving
NextFiles ==
    \/ ProcessChatData
    \/ ForEachAction
    \/ Summary
    \/ \E l \in LoadIds : HandleFileSelect(l)
    \/ \E l \in LoadIds : ReaderOnload(l)
    \/ \E l \in LoadIds : ReaderOnerror(l)

SpecFiles == InitIdle /\ [][NextFiles]_vars

\* two loads, each from a file or from a URL, in any interleaving
TwoLoads == {l \in LoadIds : l <= 2}

NextLoads ==
    \/ ProcessChatData
    \/ ForEachAction
    \/ Summary
    \/ \E l \in TwoLoads : HandleFileSelect(l)
    \/ \E l \in TwoLoads : ReaderOnload(l)
    \/ \E l \in TwoLoads : ReaderOnerror(l)
    \/ \E l \in TwoLoads : HandleUrlLoad(l)
    \/ \E l \in TwoLoads : FetchSettles(l)
    \/ \E l \in TwoLoads : ReadChunk(l)
    \/ \E l \in TwoLoads : ReadFails(l)
    \/ \E l \in TwoLoads : ReadDone(l)

SpecLoads == InitIdle /\ [][NextLoads]_vars

\* one load from a URL
OneLoad == {l \in LoadIds : l <= 1}

NextUrl ==
    \/ ProcessChatData
    \/ ForEachAction
    \/ Summary
    \/ \E l \in OneLoad : HandleUrlLoad(l)
    \/ \E l \in OneLoad : FetchSettles(l)
    \/ \E l \in OneLoad : ReadChunk(l)
    \/ \E l \in OneLoad : ReadFails(l)
    \/ \E l \in OneLoad : ReadDone(l)

SpecUrl == InitIdle /\ [][NextUrl]_vars

\* The fetch settles and the stream signals done (the assumption of the
\* termination claim): the event loop runs the continuation of an await that
\* is ready.  The pass is no matter of scheduling: it runs inside the last
\* continuation.
FairUrl ==
    /\ SpecUrl
    /\ \A l \in OneLoad :
          /\ WF_vars(FetchSettles(l))
          /\ WF_vars(ReadChunk(l) \/ ReadDone(l))


(***************************************************************************)
(* Properties.                                                             *)
(***************************************************************************)
Total ==
    messageCount + skippedTickerCount + skippedOtherItemCount
    + skippedOtherActionCount

Rendered == pc = "idle" /\ outcome = "rendered"
PassCompleted == pc = "idle" /\ outcome \in {"rendered", "noActions"}
PassFailed == pc = "idle" /\ outcome \notin {"none", "rendered", "noActions"}

\* the action the forEach callback is about to be called with
Current == chatActions.e[idx]

Messages(children) == SelectSeq(children, IsMessage)

\* C1: conservation.  In every pass that completes the four counters add up
\* to the number of actions; while the pass runs they add up to the number of
\* actions classified so far; every call of the callback adds exactly 1 to
\* exactly one counter and no counter ever decreases during the pass.
C1_Conservation ==
    /\ [](PassCompleted => Total = Len(chatActions.e))
    /\ [](pc = "forEach" => Total = idx - 1)
    /\ [](pc = "summary" => Total = Len(chatActions.e))
    /\ [][pc = "forEach" =>
            /\ Total' = Total + 1
            /\ messageCount' \in {messageCount, messageCount + 1}
            /\ skippedTickerCount' \in {skippedTickerCount, skippedTickerCount + 1}
            /\ skippedOtherItemCount'
                   \in {skippedOtherItemCount, skippedOtherItemCount + 1}
            /\ skippedOtherActionCount'
                   \in {skippedOtherActionCount, skippedOtherActionCount + 1}]_vars
    /\ [][pc # "loaded" =>
            /\ messageCount' >= messageCount
            /\ skippedTickerCount' >= skippedTickerCount
            /\ skippedOtherItemCount' >= skippedOtherItemCount
            /\ skippedOtherActionCount' >= skippedOtherActionCount]_vars

\* a completed pass over three actions that used three different counters
C1_Witness ==
    /\ Rendered
    /\ Len(chatActions.e) = MaxActions
    /\ messageCount >= 1
    /\ skippedTickerCount >= 1
    /\ skippedOtherActionCount >= 1

\* the actions the classifier recognizes: an item with a text-message or a
\* membership renderer
ItemOf(action) == Get(Get(action, "addChatItemAction"), "item")
IsRecognized(action) ==
    \/ Truthy(Get(ItemOf(action), "liveChatTextMessageRenderer"))
    \/ Truthy(Get(ItemOf(action), "liveChatMembershipItemRenderer"))

\* the messages of the recognized actions of acts, in the order of acts
ExpectedMessages(acts) ==
    LET rec == SelectSeq(acts, IsRecognized) IN
    [i \in 1..Len(rec) |->
        MessageOf(Get(ItemOf(rec[i]), "liveChatTextMessageRenderer"),
                  Get(ItemOf(rec[i]), "liveChatMembershipItemRenderer")).elem]

\* C2: order preservation.  The messages in the container are exactly the
\* messages of the recognized actions classified so far (of all actions once
\* the pass has completed), in the order of their source actions, each once.
C2_OrderPreserved ==
    /\ pc = "forEach" =>
           container = ExpectedMessages(SubSeq(chatActions.e, 1, idx - 1))
    /\ pc = "summary" => container = ExpectedMessages(chatActions.e)
    /\ Rendered =>
           /\ Messages(container) = ExpectedMessages(chatActions.e)
           /\ Len(container) = 1 + Len(Messages(container))

\* two messages of different authors were emitted around a skipped action
C2_Witness ==
    /\ Rendered
    /\ Len(chatActions.e) = 3
    /\ ~IsRecognized(chatActions.e[2])
    /\ Len(Messages(container)) = 2
    /\ Messages(container)[1].name = <<"b">>
    /\ Messages(container)[2].name = <<"a">>

\* a text of nothing but whitespace
IsBlank(text) == \A i \in 1..Len(text) : text[i] \in {Space, Nbsp}

\* C3: an empty or whitespace-only raw text ends the pass with EmptyInput
\* before anything is parsed, extracted or classified, and the container holds
\* the error alone.
C3_EmptyInput ==
    (pc # "loaded" /\ IsBlank(rawText)) =>
        /\ pc = "idle"
        /\ outcome = "EmptyInput"
        /\ container = <<ErrorP(EmptyMsg)>>
        /\ chatDataArray = Undefined
        /\ chatActions = Undefined
        /\ idx = 0
        /\ Total = 0

\* a text of two kinds of whitespace was refused
C3_Witness ==
    /\ pc = "idle"
    /\ rawText = <<Nbsp, Space>>
    /\ outcome = "EmptyInput"
    /\ Messages(container) = <<>>


IsBlankChar(c) == c \in {Space, Nbsp}

\* an occurrence of "}" whitespace* "{" begins at s[i]
StartsSeparator(s, i) ==
    /\ s[i] = "}"
    /\ \E j \in (i + 1)..Len(s) :
           /\ s[j] = "{"
           /\ \A k \in (i + 1)..(j - 1) : IsBlankChar(s[k])

\* s[k] is whitespace between the braces of an occurrence
InsideSeparator(s, k) ==
    /\ IsBlankChar(s[k])
    /\ \E i \in 1..(k - 1) :
           /\ s[i] = "}"
           /\ \A m \in (i + 1)..k : IsBlankChar(s[m])
    /\ \E j \in (k + 1)..Len(s) :
           /\ s[j] = "{"
           /\ \A m \in k..(j - 1) : IsBlankChar(s[m])

\* s with every occurrence replaced by "},{", position by position
EveryOccurrenceReplaced(s) ==
    Flatten([k \in 1..Len(s) |->
                IF StartsSeparator(s, k) THEN <<"}", ",">>
                ELSE IF InsideSeparator(s, k) THEN <<>>
                     ELSE <<s[k]>>])

SeparatorCount(s) == Cardinality({i \in 1..Len(s) : StartsSeparator(s, i)})

\* s read as JSON objects one after the other with optional whitespace
\* between them
RECURSIVE ObjectsFrom(_, _, _)
ObjectsFrom(s, i, acc) ==
    LET j == SkipSpaces(s, i) IN
    IF j > Len(s) THEN [ok |-> TRUE, objs |-> acc]
    ELSE IF s[j] # "{" THEN [ok |-> FALSE, objs |-> <<>>]
         ELSE LET r == ParseValue(s, j) IN
              IF ~r.ok THEN [ok |-> FALSE, objs |-> <<>>]
              ELSE ObjectsFrom(s, r.pos, Append(acc, r.val))

LooksLikeArray(s) == s # <<>> /\ s[1] = "[" /\ s[Len(s)] = "]"

\* C4: the repair.  A trimmed text that does not both start with "[" and end
\* with "]" has every "}" whitespace* "{" replaced by "},{" (inside string
\* values too) and is wrapped in one pair of brackets.  n >= 1 concatenated
\* JSON objects therefore parse to an array of n elements in the same order:
\* the objects themselves when every occurrence is a boundary between two of
\* them.  {"a":1}{"b":2} becomes [{"a":1},{"b":2}].
C4_Repair ==
    LET trimmed == Trim(rawText)
        objects == ObjectsFrom(trimmed, 1, <<>>)
    IN (pc = "idle" /\ trimmed # <<>> /\ ~LooksLikeArray(trimmed)) =>
           /\ processedText =
                  <<"[">> \o EveryOccurrenceReplaced(trimmed) \o <<"]">>
           /\ objects.ok =>
                  /\ chatDataArray.t = "array"
                  /\ Len(chatDataArray.e) = Len(objects.objs)
                  /\ SeparatorCount(trimmed) = Len(objects.objs) - 1 =>
                         chatDataArray.e = objects.objs
           /\ rawText = ExampleText => processedText = ExampleRepaired
           /\ rawText = LimitationText =>
                  chatDataArray = Arr(<<O1("k", Str(<<"}", ",", "{">>))>>)

\* the example of the specification was repaired and parsed
C4_Witness ==
    /\ pc = "idle"
    /\ rawText = ExampleText
    /\ processedText = ExampleRepaired
    /\ chatDataArray = Arr(<<O1("a", Num(1)), O1("b", Num(2))>>)

\* C5: the repair does not fire on a trimmed text that starts with "[" and
\* ends with "]".  A well-formed JSON array, with or without whitespace around
\* it, reaches the parser as it is but for the whitespace around it, and
\* preparing a prepared text again changes nothing.
C5_NoRepairOnArrays ==
    LET whole == JSONparse(rawText) IN
    pc = "idle" =>
        /\ LooksLikeArray(Trim(rawText)) => processedText = Trim(rawText)
        /\ (whole.ok /\ whole.val.t = "array") =>
               /\ \E a, b \in 0..Len(rawText) :
                      /\ a + b <= Len(rawText)
                      /\ processedText = SubSeq(rawText, a + 1, Len(rawText) - b)
                      /\ \A i \in 1..a : IsBlankChar(rawText[i])
                      /\ \A i \in (Len(rawText) - b + 1)..Len(rawText) :
                             IsBlankChar(rawText[i])
               /\ chatDataArray = whole.val
        /\ processedText # <<>> =>
               ProcessStage(processedText).processedText = processedText

\* an array between blanks went to the parser without its blanks, unrepaired
C5_Witness ==
    /\ pc = "idle"
    /\ rawText = <<Space, "[", "1", "]">>
    /\ processedText = <<"[", "1", "]">>
    /\ chatDataArray = Arr(<<Num(1)>>)


\* C6: parse and classify errors end the pass.  A prepared text that is not
\* valid JSON ends it with MalformedJson, and after any failed pass the
\* container holds one error and no message, whatever was built before.
C6_ErrorsTerminal ==
    /\ (pc # "loaded" /\ ~IsBlank(rawText) /\ ~JSONparse(processedText).ok) =>
           /\ pc = "idle"
           /\ outcome = "MalformedJson"
           /\ container = <<ErrorP(ParseMsg)>>
    /\ PassFailed =>
           /\ Len(container) = 1
           /\ container[1].tag = "p"
           /\ container[1].cls = "error"
           /\ Messages(container) = <<>>

\* the callback threw after a message had been built and put in the container
C6_Witness ==
    /\ PassFailed
    /\ outcome = "TypeError"
    /\ idx >= 2
    /\ messageCount >= 2
    /\ container = <<ErrorP(TypeErrorMsg)>>

IsTextItem(action) == Truthy(Get(ItemOf(action), "liveChatTextMessageRenderer"))
IsMemberItem(action) ==
    /\ ~IsTextItem(action)
    /\ Truthy(Get(ItemOf(action), "liveChatMembershipItemRenderer"))
IsUnhandledItem(action) == Truthy(ItemOf(action)) /\ ~IsRecognized(action)
IsTickerAction(action) ==
    /\ ~Truthy(Get(action, "addChatItemAction"))
    /\ Truthy(Get(action, "addLiveChatTickerItemAction"))
IsUnhandledAction(action) ==
    \/ Truthy(Get(action, "addChatItemAction")) /\ ~Truthy(ItemOf(action))
    \/ /\ ~Truthy(Get(action, "addChatItemAction"))
       /\ ~Truthy(Get(action, "addLiveChatTickerItemAction"))

\* one text-message item, one ticker item and one item of another type, in
\* any order
Scenario ==
    /\ Len(chatActions.e) = 3
    /\ \E i, j, k \in 1..3 :
           /\ {i, j, k} = 1..3
           /\ IsTextItem(chatActions.e[i])
           /\ IsTickerAction(chatActions.e[j])
           /\ IsUnhandledItem(chatActions.e[k])

SomeSkipped ==
    skippedTickerCount > 0 \/ skippedOtherItemCount > 0
    \/ skippedOtherActionCount > 0

\* sub occurs in s
Contains(s, sub) ==
    \E i \in 0..(Len(s) - Len(sub)) : SubSeq(s, i + 1, i + Len(sub)) = sub

StartsWithText(s, prefix) ==
    Len(s) >= Len(prefix) /\ SubSeq(s, 1, Len(prefix)) = prefix

\* "Displayed 1 messages (Skipped: 1 ticker, 1 unhandled item types)"
C7ClaimedSummary ==
    <<"D", "i", "s", "p", "l", "a", "y", "e", "d", " ", "1", " ", "m", "e",
      "s", "s", "a", "g", "e", "s", " ", "(", "S", "k", "i", "p", "p", "e",
      "d", ":", " ", "1", " ", "t", "i", "c", "k", "e", "r", ",", " ", "1",
      " ", "u", "n", "h", "a", "n", "d", "l", "e", "d", " ", "i", "t", "e",
      "m", " ", "t", "y", "p", "e", "s", ")">>

\* "Displayed 1 messages. (Skipped: 1 ticker, 1 unhandled item types)"
C7ActualSummary ==
    <<"D", "i", "s", "p", "l", "a", "y", "e", "d", " ", "1", " ", "m", "e",
      "s", "s", "a", "g", "e", "s", ".", " ", "(", "S", "k", "i", "p", "p",
      "e", "d", ":", " ", "1", " ", "t", "i", "c", "k", "e", "r", ",", " ",
      "1", " ", "u", "n", "h", "a", "n", "d", "l", "e", "d", " ", "i", "t",
      "e", "m", " ", "t", "y", "p", "e", "s", ")">>

\* "Displayed "
C7Displayed ==
    <<"D", "i", "s", "p", "l", "a", "y", "e", "d", " ">>

\* " messages (Skipped: "
C7ClaimedJoin ==
    <<" ", "m", "e", "s", "s", "a", "g", "e", "s", " ", "(", "S", "k", "i",
      "p", "p", "e", "d", ":", " ">>

\* " messages. (Skipped: "
C7ActualJoin ==
    <<" ", "m", "e", "s", "s", "a", "g", "e", "s", ".", " ", "(", "S", "k",
      "i", "p", "p", "e", "d", ":", " ">>

\* C7 as stated: in the scenario the counters are 1, 1, 1, 0 and the summary
\* contains "Displayed 1 messages (Skipped: 1 ticker, 1 unhandled item
\* types)"; with displayed >= 1 and a nonzero skip counter the summary reads
\* "Displayed N messages" followed directly by " (Skipped: ".
C7_AsStated ==
    /\ (Rendered /\ Scenario) =>
           /\ <<messageCount, skippedTickerCount, skippedOtherItemCount,
                skippedOtherActionCount>> = <<1, 1, 1, 0>>
           /\ Contains(container[1].text, C7ClaimedSummary)
    /\ (Rendered /\ messageCount >= 1 /\ SomeSkipped) =>
           Contains(container[1].text,
                    C7Displayed \o Digits(messageCount) \o C7ClaimedJoin)

\* C7, amended: in the scenario the counters are 1, 1, 1, 0 and the summary is
\* "Displayed 1 messages. (Skipped: 1 ticker, 1 unhandled item types)"; with
\* displayed >= 1 and a nonzero skip counter the summary begins "Displayed N
\* messages." (with the full stop), goes on " (Skipped: " and ends ")".
C7_SummaryWithFullStop ==
    /\ (Rendered /\ Scenario) =>
           /\ <<messageCount, skippedTickerCount, skippedOtherItemCount,
                skippedOtherActionCount>> = <<1, 1, 1, 0>>
           /\ container[1] = PlainP(C7ActualSummary)
    /\ (Rendered /\ messageCount >= 1 /\ SomeSkipped) =>
           /\ StartsWithText(container[1].text,
                             C7Displayed \o Digits(messageCount) \o C7ActualJoin)
           /\ container[1].text[Len(container[1].text)] = ")"

\* the scenario was classified and summarised
C7_Witness ==
    /\ Rendered
    /\ Scenario
    /\ Len(container) = 2

\* C8 as stated: for an add-chat-item action with an item, a text-message
\* renderer adds 1 to displayed and one plain message to the container, a
\* membership renderer adds 1 to displayed and one membership message, any
\* other item adds 1 to skippedUnhandledItem and nothing to the container; so
\* displayed is always the number of messages emitted by the pass.
C8_Dispatch ==
    /\ [][(pc = "forEach" /\ Truthy(ItemOf(Current))) =>
            IF IsRecognized(Current)
            THEN /\ messageCount' = messageCount + 1
                 /\ Len(container') = Len(container) + 1
                 /\ SubSeq(container', 1, Len(container)) = container
                 /\ container'[Len(container')].tag = "div"
                 /\ container'[Len(container')].variant =
                        IF IsTextItem(Current) THEN "plain" ELSE "membership"
            ELSE /\ skippedOtherItemCount' = skippedOtherItemCount + 1
                 /\ messageCount' = messageCount
                 /\ container' = container]_vars
    /\ []((pc \in {"forEach", "summary"} \/ (pc = "idle" /\ outcome # "none"
                                              /\ outcome # "EmptyInput"
                                              /\ outcome # "MalformedJson"))
            => messageCount = Len(Messages(container)))

\* C9: a ticker-item action (an action that is no add-chat-item action and
\* has the ticker payload) adds 1 to skippedTicker, adds nothing to the
\* container and leaves the other three counters alone.
C9_Ticker ==
    [][(pc = "forEach" /\ IsTickerAction(Current)) =>
          /\ skippedTickerCount' = skippedTickerCount + 1
          /\ messageCount' = messageCount
          /\ skippedOtherItemCount' = skippedOtherItemCount
          /\ skippedOtherActionCount' = skippedOtherActionCount
          /\ container' = container]_vars

\* a ticker action was classified after a message had been emitted
C9_Witness ==
    /\ pc \in {"forEach", "summary"}
    /\ idx >= 3
    /\ IsTickerAction(chatActions.e[idx - 1])
    /\ skippedTickerCount >= 1
    /\ Len(container) >= 1

\* C10: an add-chat-item action without an item (missing or null) and an
\* action that is neither add-chat-item nor ticker add 1 to
\* skippedUnhandledAction, add nothing to the container, change no other
\* counter and do not end the pass: the callback goes on to the next action
\* (to the summary after the last one).
C10_UnhandledAction ==
    [][(pc = "forEach" /\ IsUnhandledAction(Current)) =>
          /\ skippedOtherActionCount' = skippedOtherActionCount + 1
          /\ messageCount' = messageCount
          /\ skippedTickerCount' = skippedTickerCount
          /\ skippedOtherItemCount' = skippedOtherItemCount
          /\ container' = container
          /\ outcome' = outcome
          /\ idx' = idx + 1
          /\ pc' = IF idx < Len(chatActions.e) THEN "forEach" ELSE "summary"]_vars

\* an action with a null item was skipped and the action after it displayed
C10_Witness ==
    /\ Rendered
    /\ Len(chatActions.e) = 2
    /\ chatActions.e[1] = ActNullItem
    /\ skippedOtherActionCount = 1
    /\ Len(Messages(container)) = 1

\* the text of the paragraph a completed pass puts first
SummaryShown == container[1].text

\* C11: summary case selection.  A completed pass over an empty action
\* sequence shows the "no chat actions found" text; over a non-empty sequence
\* with displayed = 0 and a nonzero skip counter it shows the "processed data,
\* but found no displayable messages" text; otherwise the summary states the
\* displayed count.  The cases are tried in this order and the summary begins
\* with exactly one of the three heads.
C11_SummaryCase ==
    PassCompleted =>
        LET n == Len(chatActions.e)
            isNoActions == StartsWithText(SummaryShown, TxtNoActions)
            isNoDisplayable == StartsWithText(SummaryShown, TxtNoDisplayable)
            isCount == StartsWithText(SummaryShown,
                           TxtDisplayed \o Digits(messageCount) \o TxtMessages)
        IN /\ container[1].tag = "p"
           /\ container[1].cls = ""
           /\ IF n = 0
              THEN isNoActions /\ container = <<PlainP(TxtNoActions)>>
              ELSE IF messageCount = 0 /\ SomeSkipped
                   THEN isNoDisplayable
                   ELSE isCount /\ messageCount >= 1
           /\ Cardinality({c \in {"a", "b", "c"} :
                              \/ c = "a" /\ isNoActions
                              \/ c = "b" /\ isNoDisplayable
                              \/ c = "c" /\ isCount}) = 1

\* a pass over actions none of which is displayed ended with the second head
C11_Witness ==
    /\ Rendered
    /\ Len(chatActions.e) = 2
    /\ messageCount = 0
    /\ skippedTickerCount = 1
    /\ skippedOtherItemCount = 1
    /\ StartsWithText(SummaryShown, TxtNoDisplayable)

\* C12: summary breakdown.  The parenthesis lists exactly the skip categories
\* whose counter is nonzero, each as its count and its label, in the order
\* ticker, unhandled item types, unhandled action types, joined by ", "; a
\* category whose counter is zero does not appear, and with all three counters
\* zero the summary has no parenthesis at all.
C12_Breakdown ==
    Rendered =>
        LET head == SummaryHead(messageCount, skippedTickerCount,
                                skippedOtherItemCount, skippedOtherActionCount,
                                Len(chatActions.e))
            t == Digits(skippedTickerCount) \o TxtTicker
            i == Digits(skippedOtherItemCount) \o TxtItemTypes
            a == Digits(skippedOtherActionCount) \o TxtActionTypes
            nonzero == <<skippedTickerCount > 0, skippedOtherItemCount > 0,
                         skippedOtherActionCount > 0>>
            list == CASE nonzero = <<TRUE, TRUE, TRUE>> ->
                             t \o TxtComma \o i \o TxtComma \o a
                      [] nonzero = <<TRUE, TRUE, FALSE>> -> t \o TxtComma \o i
                      [] nonzero = <<TRUE, FALSE, TRUE>> -> t \o TxtComma \o a
                      [] nonzero = <<FALSE, TRUE, TRUE>> -> i \o TxtComma \o a
                      [] nonzero = <<TRUE, FALSE, FALSE>> -> t
                      [] nonzero = <<FALSE, TRUE, FALSE>> -> i
                      [] nonzero = <<FALSE, FALSE, TRUE>> -> a
                      [] OTHER -> <<>>
        IN /\ Contains(SummaryShown, TxtTicker) <=> skippedTickerCount > 0
           /\ Contains(SummaryShown, TxtItemTypes) <=> skippedOtherItemCount > 0
           /\ Contains(SummaryShown, TxtActionTypes)
                  <=> skippedOtherActionCount > 0
           /\ IF SomeSkipped
              THEN SummaryShown = head \o TxtSkippedOpen \o list \o TxtClose
              ELSE SummaryShown = head /\ ~Contains(SummaryShown, <<"(">>)

\* a summary that lists the first and the third category and leaves out the
\* second, whose counter is zero
C12_Witness ==
    /\ Rendered
    /\ skippedTickerCount = 1
    /\ skippedOtherItemCount = 0
    /\ skippedOtherActionCount = 2
    /\ Contains(SummaryShown, TxtComma)

\* the two places of a top-level item that can hold its actions
ReplayLocation(item) == Get(Get(item, "replayChatItemAction"), "actions")
ContinuationLocation(item) ==
    Get(Get(Get(item, "continuationContents"), "liveChatContinuation"),
        "actions")

\* a location holds a list, or nothing that counts (absent, null, 0, "")
IsListOrNothing(v) == IsArray(v) \/ ~Truthy(v)
WellShaped(item) ==
    IsListOrNothing(ReplayLocation(item))
    /\ IsListOrNothing(ContinuationLocation(item))

\* the list the specification selects for an item
SelectedList(item) ==
    IF IsArray(ReplayLocation(item)) THEN ReplayLocation(item).e
    ELSE IF IsArray(ContinuationLocation(item))
         THEN ContinuationLocation(item).e
         ELSE <<>>

\* the number of actions the items before item i contribute
RECURSIVE OffsetOf(_, _)
OffsetOf(items, i) ==
    IF i <= 1 THEN 0
    ELSE OffsetOf(items, i - 1) + Len(SelectedList(items[i - 1]))

RECURSIVE ConcatSelected(_, _)
ConcatSelected(items, i) ==
    IF i > Len(items) THEN <<>>
    ELSE SelectedList(items[i]) \o ConcatSelected(items, i + 1)

\* the extraction stage ran over top-level items whose locations hold lists
\* or nothing
ExtractedWellShaped ==
    /\ pc # "loaded"
    /\ IsArray(chatDataArray)
    /\ \A i \in 1..Len(chatDataArray.e) : WellShaped(chatDataArray.e[i])

\* C13: extractor priority.  Each top-level item contributes the actions of
\* exactly one location: the list under the replay wrapper when there is one,
\* even an empty one, otherwise the list under the live-chat continuation; an
\* item with a replay list contributes no action of its continuation list.
C13_ExtractorPriority ==
    ExtractedWellShaped =>
        /\ IsArray(chatActions)
        /\ \A i \in 1..Len(chatDataArray.e) :
              LET item == chatDataArray.e[i]
                  from == OffsetOf(chatDataArray.e, i)
                  contributed ==
                      SubSeq(chatActions.e, from + 1,
                             OffsetOf(chatDataArray.e, i + 1))
              IN /\ OffsetOf(chatDataArray.e, i + 1) <= Len(chatActions.e)
                 /\ IsArray(ReplayLocation(item))
                        => contributed = ReplayLocation(item).e
                 /\ (~IsArray(ReplayLocation(item))
                     /\ IsArray(ContinuationLocation(item)))
                        => contributed = ContinuationLocation(item).e

\* an item with an empty replay list and a non-empty continuation list, after
\* an item that has only the continuation list: one action was extracted
C13_Witness ==
    /\ ExtractedWellShaped
    /\ Len(chatDataArray.e) = 2
    /\ chatDataArray.e[1] = ContinuationItem(Arr(<<ActMember>>))
    /\ chatDataArray.e[2] = BothItem(Arr(<<>>), Arr(<<ActNoItem>>))
    /\ chatActions = Arr(<<ActMember>>)
    /\ Rendered

\* C14: extractor flattening.  The flat action sequence is the selected lists
\* of the top-level items put one after the other in item order, each list in
\* its own order, so its length is the sum of their lengths; an item with
\* neither location (null, a number, an empty object) contributes nothing and
\* the pass does not fail because of it.
C14_Flattening ==
    ExtractedWellShaped =>
        /\ IsArray(chatActions)
        /\ chatActions.e = ConcatSelected(chatDataArray.e, 1)
        /\ Len(chatActions.e) =
               OffsetOf(chatDataArray.e, Len(chatDataArray.e) + 1)
        /\ outcome \notin {"InternalShapeError", "TypeError", "MalformedJson",
                            "EmptyInput"}
        /\ pc = "idle" => PassCompleted

\* two items with lists of two actions and a null item between them
C14_Witness ==
    /\ ExtractedWellShaped
    /\ Rendered
    /\ chatDataArray.e = NullBetweenItems
    /\ chatActions.e = <<ActTicker, ActText("b"), ActOther, ActPaid>>

\* the value an item's selected location holds is there and is no sequence
SelectedNotSequence(item) ==
    \/ Truthy(ReplayLocation(item)) /\ ~IsArray(ReplayLocation(item))
    \/ /\ ~Truthy(ReplayLocation(item))
       /\ Truthy(ContinuationLocation(item))
       /\ ~IsArray(ContinuationLocation(item))

\* C15 as stated: when the selected location of a top-level item holds a value
\* that is no sequence (an object, a string, a number), the pass fails with
\* InternalShapeError and the value is not treated as an action.
C15_ShapeError ==
    (/\ pc # "loaded"
     /\ IsArray(chatDataArray)
     /\ \E i \in 1..Len(chatDataArray.e) :
            SelectedNotSequence(chatDataArray.e[i]))
        => /\ pc = "idle"
           /\ outcome = "InternalShapeError"
           /\ container = <<ErrorP(NotArrayMsg)>>

\* the text handed to JSON.parse was parsed without a SyntaxError
Parsed ==
    /\ pc # "loaded"
    /\ outcome \notin {"EmptyInput", "MalformedJson"}

\* the trimmed text is not empty and its prepared form is JSON
ParsesOk ==
    /\ Trim(rawText) # <<>>
    /\ JSONparse(Preprocess(Trim(rawText))).ok

\* C16: top-level shape.  Whenever the trimmed and possibly repaired text
\* parses, it starts with "[" and ends with "]" and the parsed value is a
\* sequence, so the pass never ends with the top-level InternalShapeError (nor
\* with the TypeError of reading the length of null).  The test is made before
\* the extraction: a parsed value that is no sequence is never extracted from,
\* the pass fails instead.
C16_TopLevelShape ==
    /\ Parsed =>
           /\ ParsesOk
           /\ IsLikelyValidArray(processedText)
           /\ IsArray(chatDataArray)
           /\ IsArray(chatActions)
           /\ outcome \notin {"InternalShapeError", "TypeError"}
    /\ (pc # "loaded" /\ ParsesOk) =>
           /\ Parsed
           /\ ~IsArray(chatDataArray) =>
                  /\ pc = "idle"
                  /\ outcome \in {"InternalShapeError", "TypeError"}
                  /\ chatActions \in {Undefined, Arr(<<>>)}
                  /\ Len(container) = 1
                  /\ container[1].cls = "error"

\* a single value that is no array was wrapped and parsed to a sequence of
\* one element
C16_Witness ==
    /\ Parsed
    /\ rawText \in {<<"1">>, <<Quote, Quote>>,
                     <<"{", Quote, "a", Quote, ":", "1", "}">>}
    /\ IsArray(chatDataArray)
    /\ Len(chatDataArray.e) = 1
    /\ ~IsArray(chatDataArray.e[1])
    /\ outcome = "noActions"

\* the renderer the callback reads the fields of a recognized item from
RendererDataOf(action) ==
    IF IsTextItem(action)
    THEN Get(ItemOf(action), "liveChatTextMessageRenderer")
    ELSE Get(ItemOf(action), "liveChatMembershipItemRenderer")

\* this step of the callback puts one more message into the container
Emits == Len(container') = Len(container) + 1 /\ IsMessage(container'[Len(container')])
Emitted == container'[Len(container')]

\* a value is a text that is not empty
IsText(v) == v.t = "string" /\ v.s # <<>>

\* C17: field fallbacks.  In the message of a recognized item the photo is
\* the URL of the first thumbnail, else "placeholder.png"; the time is the
\* simple text of the timestamp, else "[no time]"; the name is the simple text
\* of the author name, else "[unknown author]".  Each of the three is decided
\* by its own field alone: two renderers that agree on a field get the same
\* value for it whatever their other fields are.
C17_FieldFallbacks ==
    [][(pc = "forEach" /\ IsRecognized(Current) /\ Emits) =>
          LET r == RendererDataOf(Current)
              thumbnails == Get(Get(r, "authorPhoto"), "thumbnails")
              firstUrl == IF IsArray(thumbnails) /\ Len(thumbnails.e) >= 1
                          THEN Get(thumbnails.e[1], "url") ELSE Undefined
              time == Get(Get(r, "timestampText"), "simpleText")
              name == Get(Get(r, "authorName"), "simpleText")
          IN /\ Emitted.photo = IF IsText(firstUrl) THEN firstUrl.s
                                ELSE <<"placeholder.png">>
             /\ Emitted.time = IF IsText(time) THEN time.s ELSE <<"[no time]">>
             /\ Emitted.name = IF IsText(name) THEN name.s
                               ELSE <<"[unknown author]">>
             /\ \A r2 \in ItemRenderers :
                   /\ Get(r2, "authorPhoto") = Get(r, "authorPhoto")
                         => ToStr(AuthorPhotoUrl(r2)) = Emitted.photo
                   /\ Get(r2, "timestampText") = Get(r, "timestampText")
                         => ToStr(TimestampText(r2)) = Emitted.time
                   /\ Get(r2, "authorName") = Get(r, "authorName")
                         => ToStr(AuthorNameText(r2)) = Emitted.name]_vars

\* a message with the name given and the photo and the time fallen back
C17_Witness ==
    /\ Rendered
    /\ Len(container) = 2
    /\ container[2].photo = <<"placeholder.png">>
    /\ container[2].time = <<"[no time]">>
    /\ container[2].name = <<"n">>
    /\ Get(RendererDataOf(chatActions.e[1]), "authorPhoto") = Thumbnails(<<>>)

\* C18 as stated: whatever is missing or malformed in a recognized item, the
\* callback emits its message and goes on with the next action, and the pass
\* never ends in an error once the classification has begun.
C18_AnomaliesRecovered ==
    /\ [][(pc = "forEach" /\ IsRecognized(Current)) =>
             /\ Emits
             /\ idx' = idx + 1
             /\ pc' \in {"forEach", "summary"}
             /\ outcome' = outcome]_vars
    /\ [](pc = "idle" /\ IsArray(chatActions) /\ IsArray(chatDataArray)
             => PassCompleted)

\* the badges of a renderer as a list, when it has one or none at all
BadgeListOf(r) ==
    IF IsArray(Get(r, "authorBadges")) THEN Get(r, "authorBadges").e ELSE <<>>
IconOf(badge) ==
    LET thumbnails == Get(Get(Get(badge, "liveChatAuthorBadgeRenderer"),
                              "customThumbnail"), "thumbnails")
    IN IF IsArray(thumbnails) /\ Len(thumbnails.e) >= 1
       THEN Get(thumbnails.e[1], "url") ELSE Undefined
HasIcon(badge) == IsText(IconOf(badge))
TooltipOf(badge) ==
    LET tip == Get(Get(badge, "liveChatAuthorBadgeRenderer"), "tooltip")
    IN IF IsText(tip) THEN tip.s ELSE <<"Badge">>

\* C19: badges.  The badges of an emitted message are exactly the input
\* badges that have a non-empty custom icon URL, in input order, each with
\* that URL and with its tooltip, else "Badge"; a badge without an icon is
\* left out and the badges after it are kept.
C19_Badges ==
    [][(pc = "forEach" /\ IsRecognized(Current) /\ Emits) =>
          LET kept == SelectSeq(BadgeListOf(RendererDataOf(Current)), HasIcon)
          IN /\ Len(Emitted.badges) = Len(kept)
             /\ \A i \in 1..Len(kept) :
                   Emitted.badges[i]
                       = Img(IconOf(kept[i]).s, TooltipOf(kept[i]))]_vars

\* of three badges the first and the third were kept, the third with the
\* tooltip "Badge"
C19_Witness ==
    /\ Rendered
    /\ Len(BadgeListOf(RendererDataOf(chatActions.e[1]))) = 3
    /\ Len(container) >= 2
    /\ container[2].badges = <<Img(<<"u">>, <<"tip">>), Img(<<"v">>, <<"Badge">>)>>

\* the runs of the message body of a text item, when they are a list
BodyRunsOf(action) ==
    Get(Get(RendererDataOf(action), "message"), "runs")

\* the token a run becomes: a text, an emoji, or nothing
TokenOf(run) ==
    IF Truthy(Get(run, "text")) THEN <<TextNode(ToStr(Get(run, "text")))>>
    ELSE IF Truthy(Get(run, "emoji")) THEN <<EmojiNode(Get(run, "emoji"))>>
         ELSE <<>>

RECURSIVE TokensOf(_, _)
TokensOf(runs, i) ==
    IF i > Len(runs) THEN <<>> ELSE TokenOf(runs[i]) \o TokensOf(runs, i + 1)

\* C20 as stated: every run of the body of a text item, in order, becomes a
\* text token when it carries text (also when it carries an emoji too), else
\* an emoji token when it carries an emoji, else nothing; the message is
\* emitted with these tokens in input order, a dropped run raises no error
\* and the step counts the message and nothing else.
C20_RunDecomposition ==
    [][(pc = "forEach" /\ IsTextItem(Current) /\ IsArray(BodyRunsOf(Current))
        /\ IsListOrNothing(Get(RendererDataOf(Current), "authorBadges"))) =>
          /\ Emits
          /\ Emitted.body = TokensOf(BodyRunsOf(Current).e, 1)
          /\ outcome' = outcome
          /\ messageCount' = messageCount + 1
          /\ UNCHANGED <<skippedTickerCount, skippedOtherItemCount,
                         skippedOtherActionCount>>]_vars

(***************************************************************************)
(* Emoji runs.                                                             *)
(***************************************************************************)
\* the first thumbnail URL of an emoji, the text it resolves to
ResolvedUrl(emoji) ==
    LET thumbnails == Get(Get(emoji, "image"), "thumbnails") IN
    IF IsArray(thumbnails) /\ Len(thumbnails.e) >= 1
    THEN Get(thumbnails.e[1], "url") ELSE Undefined

\* the alt text: the accessibility label, else the first alias, else "emoji"
AltTextOf(emoji) ==
    LET label == Get(Get(Get(emoji, "accessibility"), "accessibilityData"),
                     "label")
        shortcuts == Get(emoji, "shortcuts")
        alias == IF IsArray(shortcuts) /\ Len(shortcuts.e) >= 1
                 THEN shortcuts.e[1] ELSE Undefined
    IN IF IsText(label) THEN label.s
       ELSE IF IsText(alias) THEN alias.s ELSE <<"emoji">>

\* the token of an emoji run: an image reference when a URL resolves, else
\* the bracketed alt text
ResolvedToken(run) ==
    IF Truthy(Get(run, "text")) THEN <<TextNode(ToStr(Get(run, "text")))>>
    ELSE IF Truthy(Get(run, "emoji"))
         THEN LET emoji == Get(run, "emoji") IN
              IF IsText(ResolvedUrl(emoji))
              THEN <<Img(ResolvedUrl(emoji).s, AltTextOf(emoji))>>
              ELSE <<TextNode(<<"[">> \o AltTextOf(emoji) \o <<"]">>)>>
         ELSE <<>>

RECURSIVE ResolvedTokens(_, _)
ResolvedTokens(runs, i) ==
    IF i > Len(runs) THEN <<>>
    ELSE ResolvedToken(runs[i]) \o ResolvedTokens(runs, i + 1)

\* C21 as stated: in the message emitted for a text item every emoji run is
\* an image reference with the URL of the first thumbnail when that URL
\* resolves, and else the bracketed alt text and no image reference; the alt
\* text is the accessibility label, else the first alias, else "emoji".
C21_EmojiResolution ==
    [][(pc = "forEach" /\ IsTextItem(Current) /\ IsArray(BodyRunsOf(Current))
        /\ Emits) =>
          Emitted.body = ResolvedTokens(BodyRunsOf(Current).e, 1)]_vars

\* C21 where the page's engine reads the src attribute "" back as "": the
\* statement holds there
C21_WhereEmptySrcReadsEmpty ==
    [][(emptySrc = Str(<<>>) /\ pc = "forEach" /\ IsTextItem(Current)
        /\ IsArray(BodyRunsOf(Current)) /\ Emits) =>
          Emitted.body = ResolvedTokens(BodyRunsOf(Current).e, 1)]_vars

\* the emoji with the alias "chat" and no thumbnail is in the page as an image
C21_ImageForUnresolved ==
    /\ Rendered
    /\ Len(container) >= 2
    /\ container[2].body # <<>>
    /\ container[2].body[1] = Img(<<"page.html">>, <<"chat">>)

(***************************************************************************)
(* The body of a membership item.                                          *)
(***************************************************************************)
\* this step is the callback on a membership item (and no text item)
IsMemberStep ==
    pc = "forEach" /\ IsMemberItem(Current) /\ ~IsTextItem(Current)

PrimaryRunsOf(action) ==
    Get(Get(RendererDataOf(action), "headerPrimaryText"), "runs")
SubtextOf(action) ==
    Get(Get(RendererDataOf(action), "headerSubtext"), "simpleText")

\* the header lines of a membership item, each one only if it is present
PrimaryLine(action) ==
    IF IsArray(PrimaryRunsOf(action))
    THEN <<Span("membership-header-primary",
                TokensOf(PrimaryRunsOf(action).e, 1))>>
    ELSE <<>>
SubtextLine(action) ==
    IF IsText(SubtextOf(action))
    THEN <<Span("membership-header-subtext", <<TextNode(SubtextOf(action).s)>>)>>
    ELSE <<>>

C28_HeadersKept ==
    [][(IsMemberStep /\ Emits) =>
          /\ Len(Emitted.body)
                >= Len(PrimaryLine(Current) \o SubtextLine(Current))
          /\ SubSeq(Emitted.body, 1,
                    Len(PrimaryLine(Current) \o SubtextLine(Current)))
                = PrimaryLine(Current) \o SubtextLine(Current)]_vars

\* C28 for a message field that holds nothing or a run list: the statement
\* holds there
C28_WhereRunsAreAList ==
    [][(IsMemberStep /\ Emits /\ IsListOrNothing(BodyRunsOf(Current))) =>
          /\ Len(Emitted.body)
                >= Len(PrimaryLine(Current) \o SubtextLine(Current))
          /\ SubSeq(Emitted.body, 1,
                    Len(PrimaryLine(Current) \o SubtextLine(Current)))
                = PrimaryLine(Current) \o SubtextLine(Current)]_vars

(***************************************************************************)
(* Precedence of the classification and shape of the outcome.              *)
(***************************************************************************)
HasBothPayloads(action) ==
    /\ Truthy(Get(action, "addChatItemAction"))
    /\ Truthy(Get(action, "addLiveChatTickerItemAction"))

HasBothRenderers(action) ==
    /\ Truthy(Get(ItemOf(action), "liveChatTextMessageRenderer"))
    /\ Truthy(Get(ItemOf(action), "liveChatMembershipItemRenderer"))

\* C29: classification precedence.  Every call of the callback takes exactly
\* one branch: one counter goes up by one, the others stay, and at most one
\* message is added.  An action with a chat-item payload and a ticker payload
\* is classified by the chat item and the ticker counter stays.  An item with
\* both renderers gives exactly one plain message built from the text
\* renderer.
C29_Precedence ==
    [][pc = "forEach" =>
          /\ Total' = Total + 1
          /\ messageCount' \in {messageCount, messageCount + 1}
          /\ skippedTickerCount' \in {skippedTickerCount, skippedTickerCount + 1}
          /\ skippedOtherItemCount'
                \in {skippedOtherItemCount, skippedOtherItemCount + 1}
          /\ skippedOtherActionCount'
                \in {skippedOtherActionCount, skippedOtherActionCount + 1}
          /\ Len(Messages(container')) <= Len(Messages(container)) + 1
          /\ HasBothPayloads(Current) =>
                /\ skippedTickerCount' = skippedTickerCount
                /\ IsRecognized(Current) => messageCount' = messageCount + 1
                /\ ~Truthy(ItemOf(Current)) =>
                      skippedOtherActionCount' = skippedOtherActionCount + 1
          /\ HasBothRenderers(Current) =>
                /\ Emits
                /\ messageCount' = messageCount + 1
                /\ Emitted.variant = "plain"
                /\ Emitted =
                      MessageOf(Get(ItemOf(Current), "liveChatTextMessageRenderer"),
                                Undefined).elem]_vars

\* a pass over an action with both payloads and an item with both renderers
\* has shown two plain messages and counted no ticker
C29_Witness ==
    /\ Rendered
    /\ chatActions.e = <<ActChatAndTicker, ActBothRenderers>>
    /\ messageCount = 2
    /\ skippedTickerCount = 0
    /\ container[3].variant = "plain"
    /\ container[3].name = <<"t">>

\* C26: outcome shape.  When a pass has ended the container holds either one
\* error paragraph and nothing else, or the summary paragraph first and after
\* it the messages in input order and nothing else (the summary alone when
\* nothing was displayable).
C26_OutcomeShape ==
    (pc = "idle" /\ outcome # "none") =>
        \/ /\ PassFailed
           /\ \E msg \in {EmptyMsg, ParseMsg, NotArrayMsg, ActionsNotArrayMsg,
                           TypeErrorMsg} : container = <<ErrorP(msg)>>
        \/ /\ PassCompleted
           /\ Len(container) >= 1
           /\ container[1].tag = "p" /\ container[1].cls = ""
           /\ \A i \in 2..Len(container) : IsMessage(container[i])
           /\ SubSeq(container, 2, Len(container))
                 = ExpectedMessages(chatActions.e)
           /\ messageCount = 0 => Len(container) = 1

\* a pass that started on the result of an earlier load has ended with the
\* summary and two messages
C26_Witness ==
    /\ Rendered
    /\ Len(container) = 3
    /\ container[1] = PlainP(SummaryText(2, 1, 0, 0, 3))
    /\ IsMessage(container[2]) /\ IsMessage(container[3])

(***************************************************************************)
(* Loads and passes.                                                       *)
(***************************************************************************)
ZeroCounts ==
    [messageCount |-> 0, skippedTickerCount |-> 0,
     skippedOtherActionCount |-> 0, skippedOtherItemCount |-> 0]

\* the forEach of displayChatMessages over actions, from the i-th on, begun
\* with the children and the counts given
RECURSIVE RenderFrom(_, _, _, _)
RenderFrom(actions, i, children, counts) ==
    IF i > Len(actions)
    THEN [threw |-> FALSE, children |-> children, counts |-> counts]
    ELSE LET b == Classify(actions[i])
             t == Tally(b.kind)
             counted == [k \in DOMAIN counts |-> counts[k] + t[k]]
         IN IF b.threw
            THEN [threw |-> TRUE, children |-> <<>>, counts |-> counted]
            ELSE RenderFrom(actions, i + 1,
                            IF b.kind = "message" THEN Emit(children, b.elem)
                            ELSE children,
                            counted)

\* what a pass over text leaves when it is the first pass of the page: the
\* container's children, whether displayChatMessages returned, its counters
FirstPass(text) ==
    LET r == ProcessStage(text) IN
    IF r.stage # "display"
    THEN [container |-> <<ErrorP(StageError(r.stage))>>, completed |-> FALSE,
          counts |-> ZeroCounts]
    ELSE IF Len(r.chatActions.e) = 0
         THEN [container |-> <<PlainP(TxtNoActions)>>, completed |-> TRUE,
               counts |-> ZeroCounts]
         ELSE LET f == RenderFrom(r.chatActions.e, 1, <<>>, ZeroCounts) IN
              IF f.threw
              THEN [container |-> <<ErrorP(TypeErrorMsg)>>, completed |-> FALSE,
                    counts |-> f.counts]
              ELSE [container |->
                        <<PlainP(SummaryText(f.counts.messageCount,
                                             f.counts.skippedTickerCount,
                                             f.counts.skippedOtherItemCount,
                                             f.counts.skippedOtherActionCount,
                                             Len(r.chatActions.e)))>>
                        \o f.children,
                    completed |-> TRUE, counts |-> f.counts]

\* C24: no cross-pass state.  Every pass starts its counters at zero, and
\* when a pass ends the container (and, if displayChatMessages returned, the
\* counters) are what a first pass over the same raw text leaves, whatever
\* passes ran before and whatever they left in the container.
C24_NoCrossPassState ==
    [][/\ (pc = "loaded" /\ outcome' \in {"none", "noActions"}) =>
              /\ messageCount' = 0
              /\ skippedTickerCount' = 0
              /\ skippedOtherItemCount' = 0
              /\ skippedOtherActionCount' = 0
       /\ (pc # "idle" /\ pc' = "idle") =>
              /\ container' = FirstPass(rawText).container
              /\ FirstPass(rawText).completed =>
                    /\ messageCount' = FirstPass(rawText).counts.messageCount
                    /\ skippedTickerCount'
                          = FirstPass(rawText).counts.skippedTickerCount
                    /\ skippedOtherItemCount'
                          = FirstPass(rawText).counts.skippedOtherItemCount
                    /\ skippedOtherActionCount'
                          = FirstPass(rawText).counts.skippedOtherActionCount]_vars

\* the third pass ran over the text of the first one, after a rendered and a
\* failed pass, and left what a first pass leaves
C24_Witness ==
    /\ Rendered
    /\ active = 3
    /\ loads[1].body = BodyLines /\ loads[1].order = 1
    /\ loads[2].body = BodyMalformed /\ loads[2].order = 2
    /\ loads[3].body = BodyLines /\ loads[3].order = 3
    /\ skippedTickerCount = 1
    /\ container = FirstPass(BodyLines).container

\* the load has nothing left to do
Over(l) ==
    \/ loads[l].phase \in {"failed", "aborted"}
    \/ loads[l].phase = "piped" /\ (active # l \/ pc = "idle")

\* the load has shown its outcome: an error of its own or the end of its pass
Completed(l) == Over(l) /\ loads[l].order > 0

\* the text the load gave or gives to processChatData
LoadText(l) ==
    Decode(IF loads[l].kind = "file" THEN loads[l].body
           ELSE Flatten(loads[l].chunks))

OutcomeOfLoad(l) ==
    IF loads[l].phase = "piped" THEN FirstPass(LoadText(l)).container
    ELSE <<ErrorP(loads[l].error)>>

\* C23: last writer wins.  Once two loads, from a file or a URL each and in
\* whatever interleaving, have both completed, the container holds exactly
\* the outcome of the one that completed last, and nothing of the other.
C23_LastWriterWins ==
    (\A l \in TwoLoads : Completed(l)) =>
        LET last == CHOOSE l \in TwoLoads :
                        \A k \in TwoLoads : loads[k].order <= loads[l].order
        IN container = OutcomeOfLoad(last)

\* the download that was started first completed after the file that was
\* selected second, and its messages are what the page shows
C23_Witness ==
    /\ Rendered
    /\ loads[1].kind = "url" /\ loads[1].phase = "piped" /\ loads[1].order = 2
    /\ loads[2].kind = "file" /\ loads[2].phase = "piped" /\ loads[2].order = 1
    /\ loads[1].body = BodyLines
    /\ loads[2].body = BodyOneMessage
    /\ container = FirstPass(BodyLines).container

FetchErrors == {FetchFailedMsg, HttpErrorMsg, NoBodyMsg}

\* C25: single fetch attempt.  A load from a URL calls fetch at most once and
\* not at all for a URL that is empty after trimming, for which the error is
\* shown; a rejected fetch, a status that is not OK and a missing body are
\* shown as one error, without another fetch and without a pass.
C25_SingleFetch ==
    /\ [](\A l \in TwoLoads :
             /\ loads[l].fetches <= 1
             /\ (loads[l].kind = "url" /\ loads[l].url = <<>>) =>
                    /\ loads[l].fetches = 0
                    /\ loads[l].phase = "failed"
                    /\ loads[l].error = NoUrlMsg
             /\ loads[l].error \in FetchErrors =>
                    /\ loads[l].fetches = 1
                    /\ loads[l].phase = "failed"
                    /\ loads[l].chunks = <<>>)
    /\ [][\A l \in TwoLoads :
             /\ (loads[l].phase = "new" /\ loads'[l].error = NoUrlMsg) =>
                    container' = <<ErrorP(NoUrlMsg)>>
             /\ (loads[l].phase = "fetching" /\ loads'[l].phase = "failed") =>
                    /\ loads'[l].error \in FetchErrors
                    /\ container' = <<ErrorP(loads'[l].error)>>
                    /\ UNCHANGED <<rawText, pc, outcome, active>>]_vars

\* a fetch that settled with status 404 was shown as an error after one call
C25_Witness ==
    /\ loads[1].kind = "url"
    /\ loads[1].error = HttpErrorMsg
    /\ loads[1].fetches = 1
    /\ container = <<ErrorP(HttpErrorMsg)>>

\* the container shows the result of a pass: the summary comes first
ShowsResult(children) ==
    children # <<>> /\ children[1].tag = "p" /\ children[1].cls = ""

\* C27 as stated: a result that is shown is not replaced by a progress
\* update of a download that is in flight: the step that announces the
\* download or a received chunk leaves a shown result as it is.
C27_ProgressKeepsResult ==
    [][(ShowsResult(container)
        /\ \E l \in TwoLoads : /\ loads[l].phase \in {"fetching", "streaming"}
                                /\ loads'[l].phase = "streaming") =>
          container' = container]_vars

\* a progress message has taken the place of the result of another load
C27_ResultReplaced ==
    /\ pc = "idle"
    /\ loads[1].phase = "streaming"
    /\ loads[2].phase = "piped"
    /\ Len(container) = 1
    /\ container[1].cls = "info"

\* the user typed a URL that is not empty and clicked
Started(l) == loads[l].kind = "url" /\ loads[l].url # <<>>

\* the load has shown an error of its own, or it has read the stream to its
\* end and called processChatData
Ended(l) == loads[l].phase \in {"failed", "piped"}

\* the pass of the load has returned and the container shows its outcome: a
\* result or an error, and no loading message
ShowsOutcome(l) ==
    (loads[l].phase = "piped" /\ active = l /\ pc = "idle") =>
        /\ outcome # "none"
        /\ container # <<>>
        /\ \A i \in DOMAIN container :
              container[i].tag = "p" => container[i].cls \in {"", "error"}

\* a step of a pass brings its end nearer
PassAdvances ==
    /\ pc = "loaded" => pc' \in {"idle", "forEach"}
    /\ pc = "forEach" =>
          \/ pc' \in {"idle", "summary"}
          \/ pc' = "forEach" /\ idx' = idx + 1 /\ idx' <= Len(chatActions.e)
    /\ pc = "summary" => pc' = "idle"

\* C30 as stated: every load from a URL that is not empty ends in an outcome
\* of its own, given that the fetch settles and the stream signals done: the
\* reading ends, the text given to processChatData is the response's chunks
\* in the order of arrival, the pass comes to its end, and the container then
\* shows a result or an error and no loading message.
C30_UrlLoadEnds ==
    /\ [](\A l \in OneLoad :
             /\ (loads[l].kind = "url" /\ active = l /\ pc # "idle") =>
                    rawText = Decode(loads[l].body)
             /\ ShowsOutcome(l))
    /\ [][PassAdvances]_vars
    /\ \A l \in OneLoad : [](Started(l) => <>Ended(l))

\* C30 for the URLs whose last segment decodeURI accepts: the statement
\* holds there
C30_WhereNameDecodes ==
    /\ [](\A l \in OneLoad :
             /\ (loads[l].kind = "url" /\ active = l /\ pc # "idle") =>
                    rawText = Decode(loads[l].body)
             /\ ShowsOutcome(l))
    /\ [][PassAdvances]_vars
    /\ \A l \in OneLoad :
          []((Started(l) /\ ~DecodeURI(LastSegment(loads[l].url)).threw)
                => <>Ended(l))

\* the handler ended in decodeURI: nothing was shown and nothing is pending
C30_Aborted ==
    /\ loads[1].phase = "aborted"
    /\ loads[1].url = UrlBadEscape
    /\ container = <<>>

=============================================================================
